---------------------------- MODULE Spec2Model ----------------------------
(***************************************************************************)
(* Model of the deterministic evaluation and ranking engine:               *)
(*   DeterministicEvaluator  (evaluationTypes.ts)                          *)
(*   DatasetBatchEvaluator   (unnamed/part_004)                            *)
(*   PromptScoringService    (cicdArtifactService.ts)                      *)
(*                                                                         *)
(* JavaScript numbers are modelled as exact (extended) rationals, strings  *)
(* as sequences of one-character strings, and dynamically typed values as  *)
(* records tagged with their typeof.                                       *)
(***************************************************************************)
EXTENDS Integers, Sequences, FiniteSets, TLC

VARIABLES
    evalIn,     \* arguments of one DeterministicEvaluator.evaluateOutput call
    evalOut,    \* what that call returned
    evalPc      \* "ready" before the call, "done" after it

evalVars == <<evalIn, evalOut, evalPc>>

VARIABLES
    batchIn,         \* request, test suite and stored dataset of one batch
    batchPc,         \* where runBatchEvaluation stands
    datasetItems,    \* what fetchDatasetItems returned
    variantIdx,      \* position of the outer loop (promptVariants)
    itemIdx,         \* position of the inner loop (datasetItems)
    evaluations,     \* the current variant's evaluations so far
    variantResults,  \* the finished variants
    inFlight,        \* generation calls issued and not yet settled
    generationLog,   \* history: how each generation call ended
    batchOut         \* what runBatchEvaluation returned or threw

batchVars ==
    <<batchIn, batchPc, datasetItems, variantIdx, itemIdx, evaluations,
      variantResults, inFlight, generationLog, batchOut>>

VARIABLES
    scoreIn,    \* the PromptScoringService method called and its arguments
    scoreOut,   \* what it returned
    scorePc     \* "ready" before the call, "done" after it

scoreVars == <<scoreIn, scoreOut, scorePc>>

VARIABLES
    promptLabels,     \* the labels of each version of one prompt name
    protectedLabels,  \* the project's protected labels
    storeOps          \* the publishPrompt and updateLabels calls under way

storeVars == <<promptLabels, protectedLabels, storeOps>>

-----------------------------------------------------------------------------
(* Bounds of the model                                                     *)

MaxLen == 2          \* longest generated output over Alphabet
MaxCriteria == 2     \* longest criteria list drawn from the suite pool
MaxVariants == 2     \* most prompt variants in one batch request
MaxItems == 2        \* most active items in the stored dataset
MaxRanked == 3       \* most variants in one ranking request
ScoreRateSteps == 2  \* rates given to calculateCompositeScore are k/ScoreRateSteps
RecRateSteps == 20   \* rates given to generateRecommendation are k/RecRateSteps
MaxOutputChars == 81 \* longest output measured against a token limit
MaxTemplateLen == 3  \* longest prompt template drawn from the braces and "a"
MaxVersions == 2     \* versions of the prompt name in the store
MaxStoreOps == 2     \* publishPrompt and updateLabels calls under way at once

-----------------------------------------------------------------------------
(* Numbers: n/d with d >= 0; d = 0 is +Infinity (n > 0), -Infinity (n < 0) *)
(* or NaN (n = 0), as IEEE division by zero produces them.                 *)

Abs(x) == IF x < 0 THEN -x ELSE x

RECURSIVE GCD(_, _)
GCD(a, b) == IF b = 0 THEN a ELSE GCD(b, a % b)

Rat(n, d) ==
    IF d = 0 THEN [n |-> IF n > 0 THEN 1 ELSE IF n < 0 THEN -1 ELSE 0, d |-> 0]
    ELSE LET g == GCD(Abs(n), Abs(d))
             s == IF d < 0 THEN -1 ELSE 1
         IN  [n |-> (s * n) \div g, d |-> (s * d) \div g]

RInt(k) == [n |-> k, d |-> 1]
Zero == RInt(0)
One == RInt(1)
Half == Rat(1, 2)

RAdd(x, y) == Rat(x.n * y.d + y.n * x.d, x.d * y.d)
RSub(x, y) == Rat(x.n * y.d - y.n * x.d, x.d * y.d)
RMul(x, y) == Rat(x.n * y.n, x.d * y.d)
RDiv(x, y) == Rat(x.n * y.d, x.d * y.n)
RLe(x, y) == x.n * y.d <= y.n * x.d
RLt(x, y) == x.n * y.d < y.n * x.d
RGe(x, y) == RLe(y, x)
RGt(x, y) == RLt(y, x)
RMax(x, y) == IF RLe(x, y) THEN y ELSE x
\* Math.ceil, Math.floor and Math.round (round half up) of a finite number
RFloor(x) == x.n \div x.d
RCeil(x) == -((-x.n) \div x.d)
RRound(x) == (2 * x.n + x.d) \div (2 * x.d)

-----------------------------------------------------------------------------
(* Dynamically typed values                                                *)

JSUndefined == [t |-> "undefined", v |-> <<>>]
JSNull == [t |-> "null", v |-> <<>>]
JSStr(s) == [t |-> "string", v |-> s]
JSNum(r) == [t |-> "number", v |-> r]
JSBool(b) == [t |-> "boolean", v |-> b]
JSArr(a) == [t |-> "object", v |-> a]
\* a plain object, as the sequence of its entries in Object.entries order
JSObj(entries) == [t |-> "object", v |-> entries]

\* ToBoolean, as `if (x)`, `!x` and `x || y` apply it
Truthy(x) ==
    CASE x.t = "undefined" -> FALSE
      [] x.t = "null" -> FALSE
      [] x.t = "string" -> x.v # <<>>
      [] x.t = "number" -> x.v.n # 0
      [] x.t = "boolean" -> x.v
      [] OTHER -> TRUE

\* x || y
JSOr(x, y) == IF Truthy(x) THEN x ELSE y

-----------------------------------------------------------------------------
(* Strings                                                                 *)

Alphabet == {"a", "A", " "}
Chars == Alphabet \cup {"{", "}", "1", "("}

RECURSIVE SeqsOfLen(_, _)
SeqsOfLen(S, n) ==
    IF n = 0 THEN {<<>>}
    ELSE {Append(s, c) : s \in SeqsOfLen(S, n - 1), c \in S}

SeqsUpTo(S, n) == UNION {SeqsOfLen(S, k) : k \in 0..n}

toLowerCase(s) == [i \in 1..Len(s) |-> IF s[i] = "A" THEN "a" ELSE s[i]]

\* String.prototype.includes / startsWith / endsWith
includes(s, sub) ==
    \E i \in 1..(Len(s) - Len(sub) + 1) : SubSeq(s, i, i + Len(sub) - 1) = sub
startsWith(s, sub) ==
    Len(sub) <= Len(s) /\ SubSeq(s, 1, Len(sub)) = sub
endsWith(s, sub) ==
    Len(sub) <= Len(s) /\ SubSeq(s, Len(s) - Len(sub) + 1, Len(s)) = sub

IsSpace(c) == c = " "

\* first index >= i of s that holds (want = TRUE) or does not hold a
\* whitespace character; Len(s) + 1 when there is none
RECURSIVE NextIndex(_, _, _)
NextIndex(s, i, want) ==
    IF i > Len(s) THEN Len(s) + 1
    ELSE IF IsSpace(s[i]) = want THEN i
    ELSE NextIndex(s, i + 1, want)

\* text.split(/\s+/): the pieces between maximal whitespace runs, empty
\* pieces at either end included ("" gives [""], " a" gives ["", "a"])
RECURSIVE splitWhitespace(_)
splitWhitespace(s) ==
    LET i == NextIndex(s, 1, TRUE)
    IN  IF i > Len(s) THEN <<s>>
        ELSE LET j == NextIndex(s, i, FALSE)
             IN  <<SubSeq(s, 1, i - 1)>> \o splitWhitespace(SubSeq(s, j, Len(s)))

Range(f) == {f[i] : i \in DOMAIN f}

\* Array.prototype.filter
RECURSIVE FilterSeq(_, _)
FilterSeq(s, keep) ==
    IF s = <<>> THEN <<>>
    ELSE (IF Head(s) \in keep THEN <<Head(s)>> ELSE <<>>) \o FilterSeq(Tail(s), keep)

\* String.prototype.trim restricted to the space character
Trim(s) ==
    LET solid == {i \in 1..Len(s) : ~IsSpace(s[i])}
    IN  IF solid = {} THEN <<>>
        ELSE SubSeq(s, CHOOSE i \in solid : \A j \in solid : i <= j,
                       CHOOSE i \in solid : \A j \in solid : j <= i)

\* JSON.parse on texts over Chars: "object" for an (empty) object literal,
\* "number" for a run of digits, "SyntaxError" when JSON.parse throws
JSONParse(s) ==
    LET core == Trim(s)
    IN  IF /\ Len(core) >= 2
           /\ Head(core) = "{"
           /\ core[Len(core)] = "}"
           /\ \A i \in 2..(Len(core) - 1) : IsSpace(core[i])
        THEN "object"
        ELSE IF core # <<>> /\ \A i \in 1..Len(core) : core[i] = "1"
        THEN "number"
        ELSE "SyntaxError"

\* new RegExp(pattern, flags) succeeds: patterns are literal characters and
\* "(", which opens a group that is never closed; "i" is the one legal flag
RegExpValid(pattern, flags) ==
    /\ \A i \in 1..Len(pattern) : pattern[i] # "("
    /\ \/ flags.t = "undefined"
       \/ flags.t = "string" /\ flags.v \in {<<>>, <<"i">>}

\* regex.test(output) for a valid literal pattern
RegExpTest(pattern, flags, output) ==
    IF flags.t = "string" /\ flags.v = <<"i">>
    THEN includes(toLowerCase(output), toLowerCase(pattern))
    ELSE includes(output, pattern)

-----------------------------------------------------------------------------
(* evaluationTypes.ts: helpers                                             *)

\* mutant: a started group of four characters is not counted
countTokensFloor(text) == RFloor(Rat(Len(text), 4))

countTokens(text) == RCeil(Rat(Len(text), 4))

calculateSimilarity(text1, text2) ==
    LET words1 == splitWhitespace(toLowerCase(text1))
        words2 == splitWhitespace(toLowerCase(text2))
        set1 == Range(words1)
        set2 == Range(words2)
        intersectionArray == FilterSeq(words1, set2)
        unionArray == words1 \o FilterSeq(words2, set2 \ set1)
    IN  IF Len(unionArray) = 0 THEN Zero
        ELSE Rat(Len(intersectionArray), Len(unionArray))

-----------------------------------------------------------------------------
(* DeterministicEvaluator                                                  *)

\* a thrown Error, as the value of the evaluator that threw it
Throw(msg) == [threw |-> TRUE, message |-> msg]
IsThrow(r) == "threw" \in DOMAIN r

\* a template string and the values interpolated into it
Msg(tpl, args) == [tpl |-> tpl, args |-> args]

\* throw new Error("...")
Err(text) == Throw(Msg(text, <<>>))

Result(criteriaId, passed, score, message) ==
    [criteriaId |-> criteriaId, passed |-> passed, score |-> score,
     message |-> message]

ResultWithDetails(criteriaId, passed, score, message, details) ==
    [criteriaId |-> criteriaId, passed |-> passed, score |-> score,
     message |-> message, details |-> details]

\* config.caseSensitive !== false
CaseSensitive(config) ==
    ~(config.caseSensitive.t = "boolean" /\ config.caseSensitive.v = FALSE)

Fold(caseSensitive, s) == IF caseSensitive THEN s ELSE toLowerCase(s)

\* texts && texts.length > 0
HasTexts(config) == config.texts.t = "object" /\ Len(config.texts.v) > 0

\* texts.filter(t => checkText.includes(caseSensitive ? t : t.toLowerCase()))
FoundTexts(texts, checkText, caseSensitive) ==
    FilterSeq(texts, {t \in Range(texts) : includes(checkText, Fold(caseSensitive, t))})

evaluateMustContain(output, config, criteriaId) ==
    LET text == config.text
        caseSensitive == CaseSensitive(config)
        checkText == Fold(caseSensitive, output)
    IN  IF Truthy(text) THEN
            LET passed == includes(checkText, Fold(caseSensitive, text.v))
            IN  Result(criteriaId, passed, IF passed THEN One ELSE Zero,
                       IF passed THEN Msg("Contains \"{text}\"", <<text>>)
                       ELSE Msg("Missing required text: \"{text}\"", <<text>>))
        ELSE IF HasTexts(config) THEN
            LET texts == config.texts.v
                foundTexts == FoundTexts(texts, checkText, caseSensitive)
                passed == Len(foundTexts) = Len(texts)
            IN  ResultWithDetails(criteriaId, passed,
                    Rat(Len(foundTexts), Len(texts)),
                    IF passed THEN Msg("Contains all required texts", <<>>)
                    ELSE Msg("Missing {n} required texts",
                             <<JSNum(RInt(Len(texts) - Len(foundTexts)))>>),
                    [foundTexts |-> foundTexts,
                     missingTexts |->
                        FilterSeq(texts, Range(texts) \ Range(foundTexts))])
        ELSE Err("Must provide either 'text' or 'texts' for must_contain criterion")

evaluateMustNotContain(output, config, criteriaId) ==
    LET text == config.text
        caseSensitive == CaseSensitive(config)
        checkText == Fold(caseSensitive, output)
    IN  IF Truthy(text) THEN
            LET passed == ~includes(checkText, Fold(caseSensitive, text.v))
            IN  Result(criteriaId, passed, IF passed THEN One ELSE Zero,
                       IF passed THEN Msg("Correctly excludes \"{text}\"", <<text>>)
                       ELSE Msg("Contains forbidden text: \"{text}\"", <<text>>))
        ELSE IF HasTexts(config) THEN
            LET texts == config.texts.v
                foundTexts == FoundTexts(texts, checkText, caseSensitive)
                passed == Len(foundTexts) = 0
            IN  ResultWithDetails(criteriaId, passed,
                    RSub(One, Rat(Len(foundTexts), Len(texts))),
                    IF passed THEN Msg("Correctly excludes all forbidden texts", <<>>)
                    ELSE Msg("Contains {n} forbidden texts",
                             <<JSNum(RInt(Len(foundTexts)))>>),
                    [foundForbiddenTexts |-> foundTexts])
        ELSE Err("Must provide either 'text' or 'texts' for must_not_contain criterion")

evaluateRegexMatch(output, config, criteriaId) ==
    LET pattern == config.pattern
        flags == config.flags
    IN  IF ~Truthy(pattern)
        THEN Err("Must provide 'pattern' for regex_match criterion")
        ELSE IF ~RegExpValid(pattern.v, flags)
        THEN Throw(Msg("Invalid regex pattern: {pattern}", <<pattern>>))
        ELSE LET match == RegExpTest(pattern.v, flags, output)
             IN  Result(criteriaId, match, IF match THEN One ELSE Zero,
                        IF match THEN Msg("Matches pattern: {pattern}", <<pattern>>)
                        ELSE Msg("Does not match pattern: {pattern}", <<pattern>>))

evaluateRegexNotMatch(output, config, criteriaId) ==
    LET pattern == config.pattern
        flags == config.flags
    IN  IF ~Truthy(pattern)
        THEN Err("Must provide 'pattern' for regex_not_match criterion")
        ELSE IF ~RegExpValid(pattern.v, flags)
        THEN Throw(Msg("Invalid regex pattern: {pattern}", <<pattern>>))
        ELSE LET match == RegExpTest(pattern.v, flags, output)
             IN  Result(criteriaId, ~match, IF ~match THEN One ELSE Zero,
                        IF ~match
                        THEN Msg("Correctly avoids pattern: {pattern}", <<pattern>>)
                        ELSE Msg("Matches forbidden pattern: {pattern}", <<pattern>>))

evaluateTokenLimitMax(output, config, criteriaId) ==
    LET maxTokens == config.value
    IN  IF maxTokens.t # "number"
        THEN Err("Must provide 'value' (number) for token_limit_max criterion")
        ELSE LET tokenCount == RInt(countTokens(output))
                 passed == RLe(tokenCount, maxTokens.v)
             IN  ResultWithDetails(criteriaId, passed,
                    IF passed THEN One
                    ELSE RMax(Zero, RSub(One, RDiv(RSub(tokenCount, maxTokens.v),
                                                   maxTokens.v))),
                    Msg("Token count: {tokenCount}/{maxTokens}",
                        <<JSNum(tokenCount), maxTokens>>),
                    [tokenCount |-> tokenCount, maxTokens |-> maxTokens.v,
                     exceeded |-> RSub(tokenCount, maxTokens.v)])

evaluateTokenLimitMin(output, config, criteriaId) ==
    LET minTokens == config.value
    IN  IF minTokens.t # "number"
        THEN Err("Must provide 'value' (number) for token_limit_min criterion")
        ELSE LET tokenCount == RInt(countTokens(output))
                 passed == RGe(tokenCount, minTokens.v)
             IN  ResultWithDetails(criteriaId, passed,
                    IF passed THEN One ELSE RDiv(tokenCount, minTokens.v),
                    Msg("Token count: {tokenCount}/{minTokens} minimum",
                        <<JSNum(tokenCount), minTokens>>),
                    [tokenCount |-> tokenCount, minTokens |-> minTokens.v,
                     shortfall |-> RSub(minTokens.v, tokenCount)])

evaluateLengthMaxChars(output, config, criteriaId) ==
    LET maxChars == config.value
    IN  IF maxChars.t # "number"
        THEN Err("Must provide 'value' (number) for length_max_chars criterion")
        ELSE LET charCount == RInt(Len(output))
                 passed == RLe(charCount, maxChars.v)
             IN  ResultWithDetails(criteriaId, passed,
                    IF passed THEN One
                    ELSE RMax(Zero, RSub(One, RDiv(RSub(charCount, maxChars.v),
                                                   maxChars.v))),
                    Msg("Character count: {charCount}/{maxChars}",
                        <<JSNum(charCount), maxChars>>),
                    [charCount |-> charCount, maxChars |-> maxChars.v,
                     exceeded |-> RSub(charCount, maxChars.v)])

evaluateLengthMinChars(output, config, criteriaId) ==
    LET minChars == config.value
    IN  IF minChars.t # "number"
        THEN Err("Must provide 'value' (number) for length_min_chars criterion")
        ELSE LET charCount == RInt(Len(output))
                 passed == RGe(charCount, minChars.v)
             IN  ResultWithDetails(criteriaId, passed,
                    IF passed THEN One ELSE RDiv(charCount, minChars.v),
                    Msg("Character count: {charCount}/{minChars} minimum",
                        <<JSNum(charCount), minChars>>),
                    [charCount |-> charCount, minChars |-> minChars.v,
                     shortfall |-> RSub(minChars.v, charCount)])

evaluateJsonSchema(output, config, criteriaId) ==
    LET parsed == JSONParse(output)
    IN  IF parsed = "SyntaxError"
        THEN ResultWithDetails(criteriaId, FALSE, Zero,
                Msg("Invalid JSON format", <<>>), [error |-> "SyntaxError"])
        ELSE LET passed == parsed = "object"
             IN  Result(criteriaId, passed, IF passed THEN One ELSE Zero,
                        IF passed THEN Msg("Valid JSON format", <<>>)
                        ELSE Msg("Invalid JSON format", <<>>))

evaluateStartsWith(output, config, criteriaId) ==
    LET text == config.text
        caseSensitive == CaseSensitive(config)
    IN  IF ~Truthy(text)
        THEN Err("Must provide 'text' for starts_with criterion")
        ELSE LET passed == startsWith(Fold(caseSensitive, output),
                                      Fold(caseSensitive, text.v))
             IN  Result(criteriaId, passed, IF passed THEN One ELSE Zero,
                        IF passed THEN Msg("Starts with \"{text}\"", <<text>>)
                        ELSE Msg("Does not start with \"{text}\"", <<text>>))

evaluateEndsWith(output, config, criteriaId) ==
    LET text == config.text
        caseSensitive == CaseSensitive(config)
    IN  IF ~Truthy(text)
        THEN Err("Must provide 'text' for ends_with criterion")
        ELSE LET passed == endsWith(Fold(caseSensitive, output),
                                    Fold(caseSensitive, text.v))
             IN  Result(criteriaId, passed, IF passed THEN One ELSE Zero,
                        IF passed THEN Msg("Ends with \"{text}\"", <<text>>)
                        ELSE Msg("Does not end with \"{text}\"", <<text>>))

evaluateExactMatch(output, expectedOutput, config, criteriaId) ==
    LET caseSensitive == CaseSensitive(config)
        target == JSOr(config.text, expectedOutput)
    IN  IF ~Truthy(target)
        THEN Err("Must provide either 'text' in config or expectedOutput for exact_match criterion")
        ELSE LET passed == Fold(caseSensitive, output) = Fold(caseSensitive, target.v)
             IN  Result(criteriaId, passed, IF passed THEN One ELSE Zero,
                        IF passed THEN Msg("Exact match", <<>>)
                        ELSE Msg("Does not match exactly", <<>>))

\* (x * 100).toFixed(1)
PercentFixed1(x) == Rat(RRound(RMul(x, RInt(1000))), 10)

evaluateSimilarityThreshold(output, expectedOutput, config, criteriaId) ==
    LET threshold == config.threshold
        referenceText == config.referenceText
        target == JSOr(referenceText, expectedOutput)
    IN  IF \/ threshold.t # "number"
           \/ RLt(threshold.v, Zero)
           \/ RGt(threshold.v, One)
        THEN Err("Must provide 'threshold' (0-1) for similarity_threshold criterion")
        ELSE IF ~Truthy(target)
        THEN Err("Must provide either 'referenceText' in config or expectedOutput for similarity_threshold criterion")
        ELSE LET similarity == calculateSimilarity(output, target.v)
                 passed == RGe(similarity, threshold.v)
             IN  ResultWithDetails(criteriaId, passed, similarity,
                    Msg("Similarity: {similarity}% (threshold: {threshold}%)",
                        <<JSNum(PercentFixed1(similarity)),
                          JSNum(PercentFixed1(threshold.v))>>),
                    [similarity |-> similarity, threshold |-> threshold.v,
                     target |-> IF Truthy(referenceText) THEN "referenceText"
                                ELSE "expectedOutput"])

evaluateSingleCriterion(actualOutput, expectedOutput, criterion) ==
    LET type == criterion.type
        config == criterion.config
        id == criterion.id
    IN  CASE type = "must_contain" -> evaluateMustContain(actualOutput, config, id)
          [] type = "must_not_contain" -> evaluateMustNotContain(actualOutput, config, id)
          [] type = "regex_match" -> evaluateRegexMatch(actualOutput, config, id)
          [] type = "regex_not_match" -> evaluateRegexNotMatch(actualOutput, config, id)
          [] type = "token_limit_max" -> evaluateTokenLimitMax(actualOutput, config, id)
          [] type = "token_limit_min" -> evaluateTokenLimitMin(actualOutput, config, id)
          [] type = "length_max_chars" -> evaluateLengthMaxChars(actualOutput, config, id)
          [] type = "length_min_chars" -> evaluateLengthMinChars(actualOutput, config, id)
          [] type = "json_schema_valid" -> evaluateJsonSchema(actualOutput, config, id)
          [] type = "starts_with" -> evaluateStartsWith(actualOutput, config, id)
          [] type = "ends_with" -> evaluateEndsWith(actualOutput, config, id)
          [] type = "exact_match" ->
                evaluateExactMatch(actualOutput, expectedOutput, config, id)
          [] type = "similarity_threshold" ->
                evaluateSimilarityThreshold(actualOutput, expectedOutput, config, id)
          [] OTHER ->
                Throw(Msg("Unknown evaluation criterion type: {type}", <<JSStr(type)>>))

\* the catch block of evaluateOutput
ErrorResult(criterion, error) ==
    Result(criterion.id, FALSE, Zero,
           Msg("Evaluation error: {message}", <<error.message>>))

\* the for loop of evaluateOutput from its i-th iteration on
RECURSIVE evaluateOutputFrom(_, _, _, _, _)
evaluateOutputFrom(actualOutput, expectedOutput, criteria, i, results) ==
    IF i > Len(criteria) THEN results
    ELSE LET r == evaluateSingleCriterion(actualOutput, expectedOutput, criteria[i])
         IN  evaluateOutputFrom(actualOutput, expectedOutput, criteria, i + 1,
                Append(results, IF IsThrow(r) THEN ErrorResult(criteria[i], r) ELSE r))

\* mutant: the catch block swallows the error and pushes nothing
RECURSIVE evaluateOutputSwallowFrom(_, _, _, _, _)
evaluateOutputSwallowFrom(actualOutput, expectedOutput, criteria, i, results) ==
    IF i > Len(criteria) THEN results
    ELSE LET r == evaluateSingleCriterion(actualOutput, expectedOutput, criteria[i])
         IN  evaluateOutputSwallowFrom(actualOutput, expectedOutput, criteria, i + 1,
                IF IsThrow(r) THEN results ELSE Append(results, r))

evaluateOutputSwallow(actualOutput, expectedOutput, criteria) ==
    evaluateOutputSwallowFrom(actualOutput, expectedOutput, criteria, 1, <<>>)

\* mutant: no try/catch, the first error ends the loop and the results so
\* far are all the caller can see
RECURSIVE evaluateOutputAbortFrom(_, _, _, _, _)
evaluateOutputAbortFrom(actualOutput, expectedOutput, criteria, i, results) ==
    IF i > Len(criteria) THEN results
    ELSE LET r == evaluateSingleCriterion(actualOutput, expectedOutput, criteria[i])
         IN  IF IsThrow(r) THEN results
             ELSE evaluateOutputAbortFrom(actualOutput, expectedOutput, criteria,
                                          i + 1, Append(results, r))

evaluateOutputAbort(actualOutput, expectedOutput, criteria) ==
    evaluateOutputAbortFrom(actualOutput, expectedOutput, criteria, 1, <<>>)

evaluateOutput(actualOutput, expectedOutput, criteria) ==
    evaluateOutputFrom(actualOutput, expectedOutput, criteria, 1, <<>>)

-----------------------------------------------------------------------------
(* Inputs of evaluateOutput                                                *)

EmptyConfig ==
    [text |-> JSUndefined, texts |-> JSUndefined, pattern |-> JSUndefined,
     flags |-> JSUndefined, value |-> JSUndefined, threshold |-> JSUndefined,
     referenceText |-> JSUndefined, caseSensitive |-> JSUndefined]

Criterion(id, type, config, weight, required) ==
    [id |-> id, type |-> type, config |-> config, weight |-> weight,
     required |-> required]

CriteriaTypes ==
    {"must_contain", "must_not_contain", "regex_match", "regex_not_match",
     "token_limit_max", "token_limit_min", "length_max_chars",
     "length_min_chars", "json_schema_valid", "starts_with", "ends_with",
     "exact_match", "similarity_threshold"}

\* outputs: every text over Alphabet up to MaxLen, three JSON-shaped ones
\* and one that repeats a word
Outputs ==
    SeqsUpTo(Alphabet, MaxLen)
        \cup {<<"{", "}">>, <<"1">>, <<"{", "a">>, <<"a", " ", "a">>}

ExpectedOutputs == {JSNull, JSStr(<<>>), JSStr(<<"a">>)}

CaseFlags == {JSUndefined, JSBool(TRUE), JSBool(FALSE)}
TextValues == {JSUndefined, JSStr(<<>>), JSStr(<<"a">>), JSStr(<<"A">>)}
TextsValues ==
    {JSUndefined, JSArr(<<>>), JSArr(<<<<"a">>>>), JSArr(<<<<"a">>, <<"A">>>>),
     JSArr(<<<<"a">>, <<" ">>, <<"a">>>>)}
PatternValues == {JSUndefined, JSStr(<<>>), JSStr(<<"a">>), JSStr(<<"A">>), JSStr(<<"(">>)}
FlagsValues == {JSUndefined, JSStr(<<"i">>), JSStr(<<"z">>)}
LimitValues ==
    {JSUndefined, JSStr(<<"1">>), JSNum(RInt(-1)), JSNum(Zero), JSNum(One),
     JSNum(RInt(2)), JSNum(Half)}
ThresholdValues ==
    {JSUndefined, JSNum(RInt(-1)), JSNum(Zero), JSNum(Half), JSNum(One), JSNum(RInt(2))}
ReferenceValues ==
    {JSUndefined, JSStr(<<>>), JSStr(<<"a">>), JSStr(<<"a", " ", "a">>),
     JSStr(<<"a", " ", "A", " ">>)}

\* every configuration of every criterion kind over the value sets above
ConfigsOf(type) ==
    CASE type \in {"must_contain", "must_not_contain"} ->
            {[EmptyConfig EXCEPT !.text = t, !.texts = ts, !.caseSensitive = cs] :
                t \in TextValues, ts \in TextsValues, cs \in CaseFlags}
      [] type \in {"regex_match", "regex_not_match"} ->
            {[EmptyConfig EXCEPT !.pattern = p, !.flags = f] :
                p \in PatternValues, f \in FlagsValues}
      [] type \in {"token_limit_max", "token_limit_min", "length_max_chars",
                   "length_min_chars"} ->
            {[EmptyConfig EXCEPT !.value = v] : v \in LimitValues}
      [] type \in {"starts_with", "ends_with", "exact_match"} ->
            {[EmptyConfig EXCEPT !.text = t, !.caseSensitive = cs] :
                t \in TextValues, cs \in CaseFlags}
      [] type = "similarity_threshold" ->
            {[EmptyConfig EXCEPT !.threshold = th, !.referenceText = r] :
                th \in ThresholdValues, r \in ReferenceValues}
      [] OTHER -> {EmptyConfig}

SingleCriteria ==
    UNION {{Criterion("c", type, config, One, TRUE) : config \in ConfigsOf(type)} :
              type \in CriteriaTypes \cup {"bogus"}}

\* a test suite's criteria: well-formed and malformed ones, distinct ids
SuitePool ==
    {Criterion("contains", "must_contain",
               [EmptyConfig EXCEPT !.text = JSStr(<<"a">>)], One, TRUE),
     Criterion("noText", "must_not_contain", EmptyConfig, One, TRUE),
     Criterion("badRegex", "regex_match",
               [EmptyConfig EXCEPT !.pattern = JSStr(<<"(">>)], One, TRUE),
     Criterion("badLimit", "token_limit_max",
               [EmptyConfig EXCEPT !.value = JSStr(<<"1">>)], One, TRUE),
     Criterion("minChars", "length_min_chars",
               [EmptyConfig EXCEPT !.value = JSNum(RInt(2))], Half, FALSE),
     Criterion("exact", "exact_match", EmptyConfig, One, TRUE),
     Criterion("similar", "similarity_threshold",
               [EmptyConfig EXCEPT !.threshold = JSNum(Half),
                                   !.referenceText = JSStr(<<"a", " ", "A">>)],
               One, FALSE),
     Criterion("unknown", "bogus", EmptyConfig, One, TRUE)}

CriteriaLists ==
    SeqsUpTo(SuitePool, MaxCriteria) \cup {<<c>> : c \in SingleCriteria}

\* outputs of every length up to MaxOutputChars against token limits
TokenLimitInputs ==
    {[actualOutput |-> [i \in 1..n |-> "a"],
      expectedOutput |-> JSNull,
      criteria |-> <<Criterion("c", "token_limit_max",
                               [EmptyConfig EXCEPT !.value = JSNum(limit)],
                               One, TRUE)>>] :
        n \in 0..MaxOutputChars, limit \in {Rat(5, 2), RInt(3), RInt(10)}}

EvalInputs ==
    [actualOutput : Outputs, expectedOutput : ExpectedOutputs,
     criteria : CriteriaLists]
        \cup TokenLimitInputs

-----------------------------------------------------------------------------
(* DatasetBatchEvaluator                                                   *)

\* JSON.stringify of a string without characters to escape, or of a number
\* that prints as one digit
JSONStringify(x) ==
    IF x.t = "string" THEN <<"\"">> \o x.v \o <<"\"">> ELSE <<"1">>

\* fetchDatasetItems: the active items in creation order, the first
\* sampleSize of them when a (truthy) sampleSize is given
fetchDatasetItems(stored, sampleSize) ==
    IF Truthy(sampleSize) /\ sampleSize.v.n < Len(stored)
    THEN SubSeq(stored, 1, sampleSize.v.n)
    ELSE stored

\* substituteVariables, for keys made of letters, digits and "." (as a
\* RegExp source a letter matches itself and "." any character) and values
\* that are strings, null or the number 1.  String.prototype.replace with a
\* global pattern replaces the non-overlapping matches found from left to
\* right and expands $$ and $& in the replacement string (values hold no
\* other $ pattern; the patterns have no capture group).
substituteVariables(prompt, input) ==
    LET String(value) ==
            CASE value.t = "string" -> value.v
              [] value.t = "null" -> <<"n", "u", "l", "l">>
              [] OTHER -> <<"1">>
        MatchesAt(str, pattern, i) ==
            /\ i + Len(pattern) - 1 <= Len(str)
            /\ \A j \in 1..Len(pattern) :
                    pattern[j] = "." \/ pattern[j] = str[i + j - 1]
        RECURSIVE Expand(_, _)
        Expand(replacement, matched) ==
            IF replacement = <<>> THEN <<>>
            ELSE IF /\ Head(replacement) = "$"
                    /\ Len(replacement) >= 2
                    /\ replacement[2] \in {"$", "&"}
            THEN (IF replacement[2] = "$" THEN <<"$">> ELSE matched)
                 \o Expand(SubSeq(replacement, 3, Len(replacement)), matched)
            ELSE <<Head(replacement)>> \o Expand(Tail(replacement), matched)
        RECURSIVE ReplaceFrom(_, _, _, _)
        ReplaceFrom(str, pattern, replacement, i) ==
            IF i > Len(str) THEN <<>>
            ELSE IF MatchesAt(str, pattern, i)
            THEN Expand(replacement, SubSeq(str, i, i + Len(pattern) - 1))
                 \o ReplaceFrom(str, pattern, replacement, i + Len(pattern))
            ELSE <<str[i]>> \o ReplaceFrom(str, pattern, replacement, i + 1)
        RECURSIVE ForEntries(_, _)
        ForEntries(result, k) ==
            IF k > Len(input.v) THEN result
            ELSE LET key == input.v[k].key
                     replacement == String(input.v[k].value)
                     double == ReplaceFrom(result,
                                   <<"{", "{">> \o key \o <<"}", "}">>,
                                   replacement, 1)
                     single == ReplaceFrom(double, <<"{">> \o key \o <<"}">>,
                                           replacement, 1)
                 IN  ForEntries(single, k + 1)
    IN  IF ~Truthy(input) \/ input.t # "object" THEN prompt
        ELSE ForEntries(prompt, 1)

\* criterion.weight || 1
WeightOrOne(criterion) ==
    IF criterion.weight.n # 0 THEN criterion.weight ELSE One

\* the for loop of calculateOverallScore from index i on;
\* acc = [totalWeight, weightedScore, allRequiredPassed]
RECURSIVE calculateOverallScoreFrom(_, _, _, _)
calculateOverallScoreFrom(results, criteria, i, acc) ==
    IF i > Len(results) THEN acc
    ELSE LET result == results[i]
             criterion == criteria[i]
             weight == WeightOrOne(criterion)
         IN  calculateOverallScoreFrom(results, criteria, i + 1,
                [totalWeight |-> RAdd(acc.totalWeight, weight),
                 weightedScore |-> RAdd(acc.weightedScore, RMul(result.score, weight)),
                 allRequiredPassed |->
                    IF criterion.required /\ ~result.passed THEN FALSE
                    ELSE acc.allRequiredPassed])

\* mutant: the pass threshold is not strict
calculateOverallScoreAtLeastHalf(results, criteria) ==
    IF Len(results) = 0 THEN [overallScore |-> Zero, passed |-> FALSE]
    ELSE LET acc == calculateOverallScoreFrom(results, criteria, 1,
                        [totalWeight |-> Zero, weightedScore |-> Zero,
                         allRequiredPassed |-> TRUE])
             overallScore == IF RGt(acc.totalWeight, Zero)
                             THEN RDiv(acc.weightedScore, acc.totalWeight)
                             ELSE Zero
         IN  [overallScore |-> overallScore,
              passed |-> acc.allRequiredPassed /\ RGe(overallScore, Half)]

calculateOverallScore(results, criteria) ==
    IF Len(results) = 0 THEN [overallScore |-> Zero, passed |-> FALSE]
    ELSE LET acc == calculateOverallScoreFrom(results, criteria, 1,
                        [totalWeight |-> Zero, weightedScore |-> Zero,
                         allRequiredPassed |-> TRUE])
             overallScore == IF RGt(acc.totalWeight, Zero)
                             THEN RDiv(acc.weightedScore, acc.totalWeight)
                             ELSE Zero
         IN  [overallScore |-> overallScore,
              passed |-> acc.allRequiredPassed /\ RGt(overallScore, Half)]

\* evaluatePromptVariantOnItem once executeLLMCall has returned actualOutput
\* and Date.now() has advanced by latencyMs
evaluatePromptVariantOnItem(item, criteria, actualOutput, latencyMs) ==
    LET evaluationResults ==
            evaluateOutput(actualOutput,
                           IF Truthy(item.expectedOutput)
                           THEN JSStr(JSONStringify(item.expectedOutput))
                           ELSE JSNull,
                           criteria)
        overall == calculateOverallScore(evaluationResults, criteria)
    IN  [datasetItemId |-> item.id,
         input |-> item.input,
         actualOutput |-> JSStr(actualOutput),
         expectedOutput |-> item.expectedOutput,
         results |-> evaluationResults,
         overallScore |-> overall.overallScore,
         passed |-> overall.passed,
         latencyMs |-> JSNum(RInt(latencyMs))]

\* the failed evaluation the catch block of runBatchEvaluation creates
FailedEvaluation(item) ==
    [datasetItemId |-> item.id,
     input |-> item.input,
     actualOutput |-> JSNull,
     expectedOutput |-> item.expectedOutput,
     results |-> <<>>,
     overallScore |-> Zero,
     passed |-> FALSE,
     latencyMs |-> JSNum(Zero)]

\* mutant: the catch block records nothing for the failed item
OnGenerationErrorSkip(evals, item) == evals

\* catch (error) { evaluations.push({...}) }
OnGenerationError(evals, item) == Append(evals, FailedEvaluation(item))

RECURSIVE SumSeq(_)
SumSeq(s) == IF s = <<>> THEN Zero ELSE RAdd(Head(s), SumSeq(Tail(s)))

\* mutant: the rollup counts and averages only the items whose generation
\* succeeded
calculateSummarySuccessfulOnly(evals) ==
    LET succeeded == {i \in 1..Len(evals) : evals[i].actualOutput # JSNull}
        totalItems == Cardinality(succeeded)
        passedItems == Cardinality({i \in succeeded : evals[i].passed})
        scores == [i \in 1..Len(evals) |-> evals[i].overallScore]
        latencies == [i \in 1..Len(evals) |-> evals[i].latencyMs.v]
    IN  [totalItems |-> totalItems,
         passedItems |-> passedItems,
         failedItems |-> totalItems - passedItems,
         averageScore |->
            IF totalItems > 0 THEN RDiv(SumSeq(scores), RInt(totalItems)) ELSE Zero,
         averageLatency |->
            IF totalItems > 0
            THEN JSNum(RDiv(SumSeq(latencies), RInt(totalItems)))
            ELSE JSUndefined,
         passRate |-> IF totalItems > 0 THEN Rat(passedItems, totalItems) ELSE Zero]

calculateSummary(evals) ==
    LET totalItems == Len(evals)
        passedItems == Cardinality({i \in 1..Len(evals) : evals[i].passed})
        failedItems == totalItems - passedItems
        averageScore ==
            IF totalItems > 0
            THEN RDiv(SumSeq([i \in 1..Len(evals) |-> evals[i].overallScore]),
                      RInt(totalItems))
            ELSE Zero
        latencyIdx == {i \in 1..Len(evals) : evals[i].latencyMs.t # "undefined"}
        latencies ==
            [k \in 1..Cardinality(latencyIdx) |->
                evals[CHOOSE i \in latencyIdx :
                        Cardinality({j \in latencyIdx : j < i}) = k - 1].latencyMs.v]
        averageLatency ==
            IF Len(latencies) > 0
            THEN JSNum(RDiv(SumSeq(latencies), RInt(Len(latencies))))
            ELSE JSUndefined
        passRate == IF totalItems > 0 THEN Rat(passedItems, totalItems) ELSE Zero
    IN  [totalItems |-> totalItems,
         passedItems |-> passedItems,
         failedItems |-> failedItems,
         averageScore |-> averageScore,
         averageLatency |-> averageLatency,
         passRate |-> passRate]

-----------------------------------------------------------------------------
(* Inputs of runBatchEvaluation                                            *)

Variant(k) ==
    [id |-> "v" \o ToString(k), name |-> "Variant " \o ToString(k),
     content |-> <<"{", "a", "}">>]

Item(k) ==
    [id |-> "item" \o ToString(k),
     input |-> JSObj(<<[key |-> <<"a">>, value |-> JSStr(<<"a">>)]>>),
     expectedOutput |->
        CASE k % 3 = 1 -> JSStr(<<"a">>)
          [] k % 3 = 2 -> JSNum(One)
          [] OTHER -> JSNull]

\* the criteria of the test suite a batch runs
BatchSuites ==
    LET Contains ==
            Criterion("contains", "must_contain",
                      [EmptyConfig EXCEPT !.text = JSStr(<<"a">>)], One, TRUE)
        MinChars ==
            Criterion("minChars", "length_min_chars",
                      [EmptyConfig EXCEPT !.value = JSNum(RInt(2))], Half, TRUE)
        Both ==
            Criterion("both", "must_contain",
                      [EmptyConfig EXCEPT !.texts = JSArr(<<<<"a">>, <<"1">>>>)], Half, FALSE)
        Exact == Criterion("exact", "exact_match", EmptyConfig, One, FALSE)
        ZeroWeight ==
            Criterion("zeroWeight", "must_not_contain",
                      [EmptyConfig EXCEPT !.text = JSStr(<<"a">>)], Zero, FALSE)
        Unknown == Criterion("unknown", "bogus", EmptyConfig, One, TRUE)
    IN  {<<>>, <<Contains, Exact>>, <<Contains, ZeroWeight>>, <<Contains, MinChars>>,
         <<Contains, Both>>, <<Exact, Unknown>>, <<ZeroWeight>>}

BatchInputs ==
    [promptVariants : {[k \in 1..n |-> Variant(k)] : n \in 0..MaxVariants},
     stored : {[k \in 1..n |-> Item(k)] : n \in 0..MaxItems},
     sampleSize : {JSUndefined, JSNum(One)},
     criteria : BatchSuites]

\* batches of one variant over one item, to exercise substituteVariables:
\* templates with well-formed, nested, unclosed and unknown placeholders;
\* inputs that are not objects, and objects of up to two entries in either
\* order whose values may themselves hold a placeholder or a $ pattern
PromptInputs ==
    LET templates ==
            SeqsUpTo({"{", "a", "}"}, MaxTemplateLen)
                \cup {<<"{", "{", "a", "}", "}">>,
                      <<"{", "a", "}", "{", "b", "}">>,
                      <<"{", "b", "}", "{", "a", "}">>,
                      <<"{", "{", "a", "}", "}", "{", "b", "}">>,
                      <<"{", "a", "}", "{", "a", "}">>,
                      <<"{", "c", "}">>,
                      <<"{", "{", "c", "}", "}">>}
        values ==
            {JSStr(<<"x">>), JSStr(<<>>), JSStr(<<"{", "b", "}">>),
             JSStr(<<"{", "a", "}">>), JSStr(<<"$", "&">>), JSNull}
        Entry(key, value) == [key |-> <<key>>, value |-> value]
        inputs ==
            {JSUndefined, JSNull, JSStr(<<"a">>), JSNum(One), JSObj(<<>>),
             JSObj(<<Entry(".", JSStr(<<"x">>))>>)}
                \cup {JSObj(<<Entry(k, v)>>) : k \in {"a", "b"}, v \in values}
                \cup {JSObj(<<Entry("a", v), Entry("b", w)>>) :
                          v \in values, w \in values}
                \cup {JSObj(<<Entry("b", w), Entry("a", v)>>) :
                          v \in values, w \in values}
    IN  {[promptVariants |->
            <<[id |-> "v1", name |-> "Variant 1", content |-> template]>>,
          stored |->
            <<[id |-> "item1", input |-> input, expectedOutput |-> JSNull]>>,
          sampleSize |-> JSUndefined,
          criteria |-> <<>>] :
            template \in templates, input \in inputs}

\* what the generation collaborator can answer: a completion and the
\* wall-clock time it took
GenerationOutcomes ==
    {[text |-> <<"a">>, latencyMs |-> 200], [text |-> <<"1">>, latencyMs |-> 50]}

-----------------------------------------------------------------------------
(* PromptScoringService                                                    *)

\* TOKEN_COSTS: USD per 1K tokens
TOKEN_COSTS ==
    [model \in {"gpt-4", "gpt-4-turbo", "gpt-3.5-turbo", "claude-3-opus",
                "claude-3-sonnet", "claude-3-haiku"} |->
        CASE model = "gpt-4" -> [input |-> Rat(3, 100), output |-> Rat(6, 100)]
          [] model = "gpt-4-turbo" -> [input |-> Rat(1, 100), output |-> Rat(3, 100)]
          [] model = "gpt-3.5-turbo" ->
                [input |-> Rat(15, 10000), output |-> Rat(2, 1000)]
          [] model = "claude-3-opus" ->
                [input |-> Rat(15, 1000), output |-> Rat(75, 1000)]
          [] model = "claude-3-sonnet" ->
                [input |-> Rat(3, 1000), output |-> Rat(15, 1000)]
          [] OTHER -> [input |-> Rat(25, 100000), output |-> Rat(125, 100000)]]

\* insertion of x into an ascending sequence, after its equals
RECURSIVE InsertAsc(_, _)
InsertAsc(sorted, x) ==
    IF sorted = <<>> THEN <<x>>
    ELSE IF RLe(Head(sorted), x) THEN <<Head(sorted)>> \o InsertAsc(Tail(sorted), x)
    ELSE <<x>> \o sorted

\* numbers.sort((a, b) => a - b)
RECURSIVE SortAsc(_)
SortAsc(s) ==
    IF s = <<>> THEN <<>>
    ELSE InsertAsc(SortAsc(SubSeq(s, 1, Len(s) - 1)), s[Len(s)])

\* evaluations.map(e => e.latencyMs).filter(l => l !== undefined)
RECURSIVE DefinedLatencies(_)
DefinedLatencies(evals) ==
    IF evals = <<>> THEN <<>>
    ELSE (IF Head(evals).latencyMs.t # "undefined"
          THEN <<Head(evals).latencyMs.v>> ELSE <<>>)
         \o DefinedLatencies(Tail(evals))

RSquare(x) == RMul(x, x)

\* Math.max(0, 1 - Math.sqrt(variance)), kept exact: the number whose
\* distance to 1 is the square root of `variance` (0 once variance >= 1)
ConsistencyOf(variance) == [oneMinusSqrtOf |-> variance]
\* consistencyScore is truthy (not 0), >= r and < r, for r in [0,1]
ConsistencyTruthy(cs) == RLt(cs.oneMinusSqrtOf, One)
ConsistencyGe(cs, r) ==
    IF RGe(cs.oneMinusSqrtOf, One) THEN RLe(r, Zero)
    ELSE RLe(cs.oneMinusSqrtOf, RSquare(RSub(One, r)))
ConsistencyLt(cs, r) == ~ConsistencyGe(cs, r)

calculateMetrics(variantResult, modelConfig) ==
    LET evals == variantResult.evaluations
        summary == variantResult.summary
        passRate == summary.passRate
        averageScore == summary.averageScore
        latencies == SortAsc(DefinedLatencies(evals))
        averageLatency == JSOr(summary.averageLatency, JSNum(Zero)).v
        medianLatency ==
            IF Len(latencies) > 0
            THEN JSNum(latencies[RFloor(Rat(Len(latencies), 2)) + 1])
            ELSE JSUndefined
        p95Latency ==
            IF Len(latencies) > 0
            THEN JSNum(latencies[RFloor(RMul(RInt(Len(latencies)), Rat(95, 100))) + 1])
            ELSE JSUndefined
        successRate ==
            IF Len(evals) > 0
            THEN Rat(Len(DefinedLatencies(evals)), Len(evals))
            ELSE Zero
        errorRate == RSub(One, successRate)
        hasCost == modelConfig.t # "undefined"
                       /\ modelConfig.v.model \in DOMAIN TOKEN_COSTS
        costs == TOKEN_COSTS[modelConfig.v.model]
        avgPromptTokens == RInt(100)
        avgResponseTokens == JSOr(modelConfig.v.maxTokens, JSNum(RInt(1000))).v
        totalTokensUsed ==
            IF hasCost
            THEN JSNum(RMul(RAdd(avgPromptTokens, avgResponseTokens), RInt(Len(evals))))
            ELSE JSUndefined
        estimatedCostPerRun ==
            IF hasCost
            THEN JSNum(RAdd(RDiv(RMul(avgPromptTokens, costs.input), RInt(1000)),
                            RDiv(RMul(avgResponseTokens, costs.output), RInt(1000))))
            ELSE JSUndefined
        variance ==
            IF Len(evals) > 1
            THEN RDiv(SumSeq([i \in 1..Len(evals) |->
                                RSquare(RSub(evals[i].overallScore, averageScore))]),
                      RInt(Len(evals) - 1))
            ELSE Zero
    IN  [passRate |-> passRate,
         averageScore |-> averageScore,
         averageLatency |-> averageLatency,
         medianLatency |-> medianLatency,
         p95Latency |-> p95Latency,
         estimatedCostPerRun |-> estimatedCostPerRun,
         totalTokensUsed |-> totalTokensUsed,
         consistencyScore |-> ConsistencyOf(variance),
         successRate |-> successRate,
         errorRate |-> errorRate]

DefaultWeights ==
    [passRate |-> Rat(4, 10), averageScore |-> Rat(3, 10), latency |-> Rat(2, 10),
     cost |-> Rat(1, 10)]

maxReasonableLatency == 10000

\* mutant: the latency term rewards a slow variant
calculateCompositeScoreSlowIsGood(metrics, weights) ==
    LET ratio == RDiv(metrics.averageLatency, RInt(maxReasonableLatency))
        normalizedLatency == IF RLe(One, ratio) THEN One ELSE ratio
        normalizedCost ==
            IF Truthy(metrics.estimatedCostPerRun)
            THEN RMax(Zero, RSub(One, metrics.estimatedCostPerRun.v))
            ELSE One
        compositeScore ==
            RAdd(RAdd(RMul(metrics.passRate, weights.passRate),
                      RMul(metrics.averageScore, weights.averageScore)),
                 RAdd(RMul(normalizedLatency, weights.latency),
                      RMul(normalizedCost, weights.cost)))
    IN  RRound(RMul(RMul(compositeScore, metrics.successRate), RInt(100)))

calculateCompositeScore(metrics, weights) ==
    LET normalizedLatency ==
            RMax(Zero, RSub(One, RDiv(metrics.averageLatency,
                                      RInt(maxReasonableLatency))))
        maxReasonableCost == One
        normalizedCost ==
            IF Truthy(metrics.estimatedCostPerRun)
            THEN RMax(Zero, RSub(One, RDiv(metrics.estimatedCostPerRun.v,
                                           maxReasonableCost)))
            ELSE One
        compositeScore ==
            RAdd(RAdd(RMul(metrics.passRate, weights.passRate),
                      RMul(metrics.averageScore, weights.averageScore)),
                 RAdd(RMul(normalizedLatency, weights.latency),
                      RMul(normalizedCost, weights.cost)))
        reliabilityAdjustedScore == RMul(compositeScore, metrics.successRate)
    IN  RRound(RMul(reliabilityAdjustedScore, RInt(100)))

generateTags(metrics) ==
    (IF RGe(metrics.passRate, Rat(9, 10)) THEN <<"highly-accurate">>
     ELSE IF RGe(metrics.passRate, Rat(8, 10)) THEN <<"accurate">>
     ELSE IF RLt(metrics.passRate, Rat(6, 10)) THEN <<"needs-improvement">>
     ELSE <<>>)
    \o (IF RLt(metrics.averageLatency, RInt(1000)) THEN <<"fast">>
        ELSE IF RLt(metrics.averageLatency, RInt(3000)) THEN <<"moderate-speed">>
        ELSE <<"slow">>)
    \o (IF Truthy(metrics.estimatedCostPerRun)
        THEN IF RLt(metrics.estimatedCostPerRun.v, Rat(1, 100))
             THEN <<"cost-effective">>
             ELSE IF RGt(metrics.estimatedCostPerRun.v, Rat(1, 10))
             THEN <<"expensive">>
             ELSE <<>>
        ELSE <<>>)
    \o (IF RGe(metrics.successRate, Rat(99, 100)) THEN <<"reliable">>
        ELSE IF RLt(metrics.successRate, Rat(9, 10)) THEN <<"unreliable">>
        ELSE <<>>)
    \o (IF ConsistencyTruthy(metrics.consistencyScore)
            /\ ConsistencyGe(metrics.consistencyScore, Rat(9, 10))
        THEN <<"consistent">>
        ELSE IF ConsistencyTruthy(metrics.consistencyScore)
                /\ ConsistencyLt(metrics.consistencyScore, Rat(7, 10))
        THEN <<"inconsistent">>
        ELSE <<>>)

\* mutant: the production thresholds are exclusive
generateRecommendationExclusive(metrics, score) ==
    IF /\ RGt(metrics.passRate, Rat(85, 100))
       /\ RGt(metrics.successRate, Rat(95, 100))
       /\ score > 75
    THEN "production"
    ELSE IF \/ RLt(metrics.passRate, Rat(6, 10))
            \/ RLt(metrics.successRate, Rat(8, 10))
            \/ score < 40
    THEN "discard"
    ELSE "candidate"

generateRecommendation(metrics, score) ==
    IF /\ RGe(metrics.passRate, Rat(85, 100))
       /\ RGe(metrics.successRate, Rat(95, 100))
       /\ score >= 75
    THEN "production"
    ELSE IF \/ RLt(metrics.passRate, Rat(6, 10))
            \/ RLt(metrics.successRate, Rat(8, 10))
            \/ score < 40
    THEN "discard"
    ELSE "candidate"

\* request.modelConfigs?.find(config => config.variantId === variantId)
FindModelConfig(modelConfigs, variantId) ==
    IF modelConfigs.t = "undefined" THEN JSUndefined
    ELSE LET hits == {k \in 1..Len(modelConfigs.v) :
                        modelConfigs.v[k].variantId = variantId}
         IN  IF hits = {} THEN JSUndefined
             ELSE JSArr(modelConfigs.v[CHOOSE k \in hits : \A j \in hits : k <= j])

\* insertion of x into a sequence ordered by descending score, after the
\* entries that do not score less: a stable sort, as Array.prototype.sort is
RECURSIVE InsertByScore(_, _)
InsertByScore(sorted, x) ==
    IF sorted = <<>> THEN <<x>>
    ELSE IF Head(sorted).score >= x.score
    THEN <<Head(sorted)>> \o InsertByScore(Tail(sorted), x)
    ELSE <<x>> \o sorted

\* mutant: an entry goes before the entries of equal score
RECURSIVE InsertByScoreBeforeEquals(_, _)
InsertByScoreBeforeEquals(sorted, x) ==
    IF sorted = <<>> THEN <<x>>
    ELSE IF Head(sorted).score > x.score
    THEN <<Head(sorted)>> \o InsertByScoreBeforeEquals(Tail(sorted), x)
    ELSE <<x>> \o sorted

RECURSIVE SortByScoreUnstable(_)
SortByScoreUnstable(rankings) ==
    IF rankings = <<>> THEN <<>>
    ELSE InsertByScoreBeforeEquals(
            SortByScoreUnstable(SubSeq(rankings, 1, Len(rankings) - 1)),
            rankings[Len(rankings)])

\* mutant: the comparator is a.score - b.score
RECURSIVE SortByScoreAscending(_)
SortByScoreAscending(rankings) ==
    IF rankings = <<>> THEN <<>>
    ELSE LET rest == SortByScoreAscending(SubSeq(rankings, 1, Len(rankings) - 1))
             x == rankings[Len(rankings)]
             before == {k \in 1..Len(rest) : rest[k].score <= x.score}
         IN  SubSeq(rest, 1, Cardinality(before)) \o <<x>>
                \o SubSeq(rest, Cardinality(before) + 1, Len(rest))

\* rankings.sort((a, b) => b.score - a.score)
RECURSIVE SortByScore(_)
SortByScore(rankings) ==
    IF rankings = <<>> THEN <<>>
    ELSE InsertByScore(SortByScore(SubSeq(rankings, 1, Len(rankings) - 1)),
                       rankings[Len(rankings)])

rankPrompts(request) ==
    LET weights == IF Truthy(request.weights) THEN request.weights.v
                   ELSE DefaultWeights
        rankings ==
            [k \in 1..Len(request.evaluationResults) |->
                LET result == request.evaluationResults[k]
                    modelConfig == FindModelConfig(request.modelConfigs, result.variantId)
                    metrics == calculateMetrics(result, modelConfig)
                    score == calculateCompositeScore(metrics, weights)
                IN  [variantId |-> result.variantId,
                     variantName |-> result.variantName,
                     score |-> score,
                     metrics |-> metrics,
                     tags |-> generateTags(metrics),
                     recommendation |-> generateRecommendation(metrics, score)]]
        sorted == SortByScore(rankings)
    IN  [index \in 1..Len(sorted) |->
            [variantId |-> sorted[index].variantId,
             variantName |-> sorted[index].variantName,
             score |-> sorted[index].score,
             metrics |-> sorted[index].metrics,
             tags |-> sorted[index].tags,
             recommendation |-> sorted[index].recommendation,
             rank |-> index]]

-----------------------------------------------------------------------------
(* promptScoringRouter.compareVariants                                     *)

\* comparison.find((r) => r.variantId === variantId)
FindRanking(comparison, variantId) ==
    LET hits == {k \in 1..Len(comparison) : comparison[k].variantId = variantId}
    IN  IF hits = {} THEN JSUndefined
        ELSE JSArr(comparison[CHOOSE k \in hits : \A j \in hits : k <= j])

\* x.toFixed(0)
Fixed0(x) == RRound(x)

\* the reasons generateComparisonReasoning joins with ", and "
generateComparisonReasoning(variant1, variant2, winner) ==
    LET ReasonsFor(name, mine, other) ==
            (IF winner.passRate = name
             THEN <<Msg("{name} has a higher pass rate ({a}% vs {b}%)",
                        <<mine.variantName, PercentFixed1(mine.metrics.passRate),
                          PercentFixed1(other.metrics.passRate)>>)>>
             ELSE <<>>)
            \o (IF winner.latency = name
                THEN <<Msg("{name} is faster ({a}ms vs {b}ms)",
                           <<mine.variantName, Fixed0(mine.metrics.averageLatency),
                             Fixed0(other.metrics.averageLatency)>>)>>
                ELSE <<>>)
            \o (IF winner.cost = name
                THEN <<Msg("{name} is more cost-effective", <<mine.variantName>>)>>
                ELSE <<>>)
        reasons == IF winner.overall = "variant1"
                   THEN ReasonsFor("variant1", variant1, variant2)
                   ELSE ReasonsFor("variant2", variant2, variant1)
    IN  IF Len(reasons) = 0
        THEN <<Msg("Performance is very similar between both variants.", <<>>)>>
        ELSE reasons

\* lines 689-756 of the query: the two rankings are looked up by variantId
\* in the comparison rankPrompts returned
CompareRankings(comparison, input) ==
    LET found1 == FindRanking(comparison, input.variant1.variantId)
        found2 == FindRanking(comparison, input.variant2.variantId)
    IN  IF ~Truthy(found1) \/ ~Truthy(found2)
        THEN Err("Failed to calculate metrics for comparison")
        ELSE
        LET variant1Metrics == found1.v
            variant2Metrics == found2.v
            cost1 == variant1Metrics.metrics.estimatedCostPerRun
            cost2 == variant2Metrics.metrics.estimatedCostPerRun
            bothCosts == Truthy(cost1) /\ Truthy(cost2)
            winner ==
                [overall |-> IF variant1Metrics.score > variant2Metrics.score
                             THEN "variant1" ELSE "variant2",
                 passRate |-> IF RGt(variant1Metrics.metrics.passRate,
                                     variant2Metrics.metrics.passRate)
                              THEN "variant1" ELSE "variant2",
                 latency |-> IF RLt(variant1Metrics.metrics.averageLatency,
                                    variant2Metrics.metrics.averageLatency)
                             THEN "variant1" ELSE "variant2",
                 cost |-> IF bothCosts
                          THEN IF RLt(cost1.v, cost2.v) THEN "variant1" ELSE "variant2"
                          ELSE "null"]
        IN  [variant1 |-> variant1Metrics,
             variant2 |-> variant2Metrics,
             differences |->
                [passRate |-> RSub(variant1Metrics.metrics.passRate,
                                   variant2Metrics.metrics.passRate),
                 score |-> variant1Metrics.score - variant2Metrics.score,
                 latency |-> RSub(variant1Metrics.metrics.averageLatency,
                                  variant2Metrics.metrics.averageLatency),
                 cost |-> IF bothCosts THEN JSNum(RSub(cost1.v, cost2.v)) ELSE JSNull],
             winner |-> winner,
             recommendation |->
                [preferred |-> winner.overall,
                 reasoning |-> generateComparisonReasoning(variant1Metrics,
                                                           variant2Metrics, winner)]]

\* the query of compareVariants; rankPrompts is called once
compareVariants(input) ==
    CHOOSE result \in
        {CompareRankings(comparison, input) :
            comparison \in
                {rankPrompts([evaluationResults |-> <<input.variant1, input.variant2>>,
                              modelConfigs |-> input.modelConfigs,
                              weights |-> input.weights])}} : TRUE

-----------------------------------------------------------------------------
(* PromptStoreService (promptScoringService.ts) and                        *)
(* promptStoreRouter.updateLabels (unnamed/part_008)                       *)
(*                                                                         *)
(* The versions of one prompt name in one project; a version's id is its   *)
(* position in promptLabels and its labels are kept as a set.  Calls carry *)
(* labels the PromptStoreLabel schema admits, other than 'latest', and     *)
(* publishPrompt is called with createNewVersion = false.                  *)

\* validateLabels; every label of the schema passes the pattern check
validateLabels(labels, protected) ==
    LET errors ==
            {Msg("Label '{label}' is protected and requires special permissions",
                 <<label>>) : label \in labels \cap protected}
            \cup (IF "production" \in labels /\ "deprecated" \in labels
                  THEN {Msg("Cannot have both 'production' and 'deprecated' labels",
                            <<>>)}
                  ELSE {})
    IN  [valid |-> errors = {}, errors |-> errors]

-----------------------------------------------------------------------------
(* Inputs of the PromptScoringService methods                              *)

RateGrid(steps) == {Rat(k, steps) : k \in 0..steps}

MetricsOf(passRate, averageScore, averageLatency, estimatedCostPerRun, successRate) ==
    [passRate |-> passRate,
     averageScore |-> averageScore,
     averageLatency |-> averageLatency,
     medianLatency |-> JSUndefined,
     p95Latency |-> JSUndefined,
     estimatedCostPerRun |-> estimatedCostPerRun,
     totalTokensUsed |-> JSUndefined,
     consistencyScore |-> ConsistencyOf(Zero),
     successRate |-> successRate,
     errorRate |-> RSub(One, successRate)]

WeightSets ==
    LET WeightValues == {Zero, One}
    IN  {DefaultWeights} \cup
        [passRate : WeightValues, averageScore : WeightValues,
         latency : WeightValues, cost : WeightValues]

CompositeInputs ==
    {[op |-> "calculateCompositeScore",
      metrics |-> MetricsOf(p, a, l, c, sr),
      weights |-> w] :
        p \in RateGrid(ScoreRateSteps), a \in RateGrid(ScoreRateSteps),
        l \in {Zero, RInt(5000), RInt(10000), RInt(20000)},
        c \in {JSUndefined, JSNum(Zero), JSNum(Half), JSNum(RInt(2))},
        sr \in RateGrid(ScoreRateSteps), w \in WeightSets}

\* the largest score PromptRanking admits
ScoreMax == 100

\* composite scores on both sides of the thresholds 40 and 75
ScoreValues == {0, 39, 40, 41, 74, 75, 76, ScoreMax}

RecommendationInputs ==
    {[op |-> "generateRecommendation",
      metrics |-> MetricsOf(p, One, Zero, JSUndefined, sr),
      score |-> sc] :
        p \in RateGrid(RecRateSteps), sr \in RateGrid(RecRateSteps),
        sc \in ScoreValues}

\* one evaluation as ComparisonRequest carries it
RankEval(k, overallScore, passed, latencyMs) ==
    [datasetItemId |-> "item" \o ToString(k), overallScore |-> overallScore,
     passed |-> passed, latencyMs |-> latencyMs]

\* the evaluations of the variants a ranking request may hold
RankEvaluations ==
    {<<>>,
     <<RankEval(1, One, TRUE, JSNum(RInt(200))), RankEval(2, One, TRUE, JSNum(RInt(200)))>>,
     <<RankEval(1, One, TRUE, JSNum(RInt(50))), RankEval(2, Zero, FALSE, JSNum(RInt(50)))>>,
     <<RankEval(1, One, TRUE, JSNum(RInt(200))), RankEval(2, Zero, FALSE, JSUndefined)>>,
     <<RankEval(1, Half, FALSE, JSNum(RInt(50)))>>,
     <<RankEval(1, One, TRUE, JSNum(RInt(12000)))>>}

\* the request's summary fields, as calculateSummary fills them
RankSummary(evals) ==
    LET summary == calculateSummary(evals)
    IN  [totalItems |-> summary.totalItems,
         passedItems |-> summary.passedItems,
         averageScore |-> summary.averageScore,
         averageLatency |-> summary.averageLatency,
         passRate |-> summary.passRate]

RankRequests ==
    UNION {
        {[evaluationResults |->
            [k \in 1..n |->
                [variantId |-> "v" \o ToString(k),
                 variantName |-> "Variant " \o ToString(k),
                 evaluations |-> evs[k],
                 summary |-> RankSummary(evs[k])]],
          weights |-> w,
          modelConfigs |-> mc] :
            evs \in [1..n -> RankEvaluations],
            w \in {JSUndefined,
                   JSArr([passRate |-> Zero, averageScore |-> One,
                          latency |-> Zero, cost |-> One])},
            mc \in {JSUndefined,
                    JSArr(<<[variantId |-> "v1", provider |-> "openai",
                             model |-> "gpt-4", maxTokens |-> JSUndefined]>>)}} :
        n \in 0..MaxRanked}
    \cup
    \* the end-to-end scenario: one variant passes every item at 200 ms, the
    \* other passes 3 items of 5 at 50 ms; every overallScore is `score`, and
    \* `timed` of the `items` evaluations of each variant carry a latency
    LET ScenarioEvals(items, passedItems, timed, score, latencyMs) ==
            [k \in 1..items |->
                RankEval(k, score, k <= passedItems,
                         IF k <= timed THEN JSNum(RInt(latencyMs)) ELSE JSUndefined)]
        ScenarioVariant(variantId, evals) ==
            [variantId |-> variantId, variantName |-> variantId,
             evaluations |-> evals, summary |-> RankSummary(evals)]
    IN  UNION {
            LET accurate == ScenarioVariant("accurate",
                                ScenarioEvals(size[1], size[1], size[2], score, 200))
                quick == ScenarioVariant("quick",
                                ScenarioEvals(size[1], (3 * size[1]) \div 5,
                                              size[2], score, 50))
            IN  {[evaluationResults |-> results, weights |-> JSUndefined,
                  modelConfigs |-> JSUndefined] :
                    results \in {<<accurate, quick>>, <<quick, accurate>>}} :
            size \in {<<5, 5>>, <<10, 1>>, <<20, 1>>},
            score \in {Rat(3, 5), One}}

RankInputs == {[op |-> "rankPrompts", request |-> r] : r \in RankRequests}

\* a variant as compareVariants receives it
CompareVariant(variantId, evals) ==
    [variantId |-> variantId,
     variantName |-> "Variant " \o variantId,
     evaluations |-> evals,
     summary |-> RankSummary(evals)]

\* the model configurations a comparison may carry
CompareModelConfigs ==
    {JSUndefined,
     JSArr(<<[variantId |-> "v1", provider |-> "openai", model |-> "gpt-4",
              maxTokens |-> JSUndefined]>>),
     JSArr(<<[variantId |-> "v1", provider |-> "openai", model |-> "gpt-4",
              maxTokens |-> JSUndefined],
             [variantId |-> "v2", provider |-> "openai", model |-> "gpt-3.5-turbo",
              maxTokens |-> JSUndefined]>>),
     JSArr(<<[variantId |-> "v1", provider |-> "openai", model |-> "gpt-3.5-turbo",
              maxTokens |-> JSUndefined],
             [variantId |-> "v2", provider |-> "openai", model |-> "gpt-4",
              maxTokens |-> JSNum(RInt(10))]>>)}

\* two variants with ids of their own, or two runs recorded under one id
CompareInputs ==
    {[op |-> "compareVariants",
      input |-> [variant1 |-> CompareVariant("v1", evs1),
                 variant2 |-> CompareVariant(id2, evs2),
                 modelConfigs |-> mc,
                 weights |-> w]] :
        evs1 \in RankEvaluations, evs2 \in RankEvaluations, id2 \in {"v1", "v2"},
        mc \in CompareModelConfigs,
        w \in {JSUndefined,
               JSArr([passRate |-> Zero, averageScore |-> One,
                      latency |-> Zero, cost |-> One])}}

\* metrics records on both sides of every threshold of generateTags; the
\* variances 0, 1/100, 1/25, 9/100, 1/4 and 1 give the consistency scores
\* 1, 0.9, 0.8, 0.7, 0.5 and 0
TagsInputs ==
    {[op |-> "generateTags",
      metrics |-> [MetricsOf(p, One, l, c, sr)
                     EXCEPT !.consistencyScore = ConsistencyOf(variance)]] :
        p \in {Rat(59, 100), Rat(6, 10), Rat(79, 100), Rat(8, 10), Rat(9, 10)},
        l \in {RInt(999), RInt(1000), RInt(2999), RInt(3000)},
        c \in {JSUndefined, JSNum(Zero), JSNum(Rat(1, 200)), JSNum(Rat(1, 100)),
               JSNum(Half)},
        sr \in {Rat(89, 100), Rat(9, 10), Rat(99, 100)},
        variance \in {Zero, Rat(1, 100), Rat(1, 25), Rat(9, 100), Rat(1, 4), One}}

ScoringInputs ==
    CompositeInputs \cup RecommendationInputs \cup RankInputs \cup CompareInputs
        \cup TagsInputs

-----------------------------------------------------------------------------
(* Each component is checked by a specification of its own; the other      *)
(* components' variables then rest at these values.                        *)

IdleEval ==
    /\ evalIn = [actualOutput |-> <<>>, expectedOutput |-> JSNull, criteria |-> <<>>]
    /\ evalOut = <<>>
    /\ evalPc = "idle"

IdleBatch ==
    /\ batchIn = [promptVariants |-> <<>>, stored |-> <<>>,
                  sampleSize |-> JSUndefined, criteria |-> <<>>]
    /\ batchPc = "idle"
    /\ datasetItems = <<>>
    /\ variantIdx = 0
    /\ itemIdx = 0
    /\ evaluations = <<>>
    /\ variantResults = <<>>
    /\ inFlight = 0
    /\ generationLog = <<>>
    /\ batchOut = [status |-> "idle"]

IdleScoring ==
    /\ scoreIn = [op |-> "none"]
    /\ scoreOut = <<>>
    /\ scorePc = "idle"

IdleStore ==
    /\ promptLabels = <<>>
    /\ protectedLabels = {}
    /\ storeOps = <<>>

notEvalVars == <<batchVars, scoreVars, storeVars>>
notBatchVars == <<evalVars, scoreVars, storeVars>>
notScoreVars == <<evalVars, batchVars, storeVars>>

-----------------------------------------------------------------------------
(* runBatchEvaluation, one action per step between two awaits              *)

InitBatch ==
    /\ batchIn \in BatchInputs
    /\ batchPc = "start"
    /\ datasetItems = <<>>
    /\ variantIdx = 0
    /\ itemIdx = 0
    /\ evaluations = <<>>
    /\ variantResults = <<>>
    /\ inFlight = 0
    /\ generationLog = <<>>
    /\ batchOut = [status |-> "running"]
    /\ IdleEval
    /\ IdleScoring
    /\ IdleStore

Completed(results) == [status |-> "completed", variantResults |-> results]

\* mutant: an empty dataset is not refused; the loops run over no items and
\* the batch completes with an empty evaluation list per variant
BeginBatchUnchecked ==
    /\ batchPc = "start"
    /\ LET items == fetchDatasetItems(batchIn.stored, batchIn.sampleSize)
           empty == [v \in 1..Len(batchIn.promptVariants) |->
                        [variantId |-> batchIn.promptVariants[v].id,
                         variantName |-> batchIn.promptVariants[v].name,
                         evaluations |-> <<>>,
                         summary |-> calculateSummary(<<>>)]]
       IN  /\ datasetItems' = items
           /\ IF Len(items) = 0 \/ Len(batchIn.promptVariants) = 0
              THEN /\ batchPc' = "completed"
                   /\ batchOut' = Completed(IF Len(items) = 0 THEN empty ELSE <<>>)
                   /\ UNCHANGED <<variantIdx, itemIdx>>
              ELSE /\ batchPc' = "item"
                   /\ variantIdx' = 1
                   /\ itemIdx' = 1
                   /\ UNCHANGED batchOut
    /\ UNCHANGED <<batchIn, evaluations, variantResults, inFlight, generationLog,
                   notBatchVars>>

\* lines 27-41: fetch the items, refuse an empty dataset, enter the loops
BeginBatch ==
    /\ batchPc = "start"
    /\ LET items == fetchDatasetItems(batchIn.stored, batchIn.sampleSize)
       IN  /\ datasetItems' = items
           /\ IF Len(items) = 0
              THEN /\ batchPc' = "failed"
                   /\ batchOut' = Err("No dataset items found")
                   /\ UNCHANGED <<variantIdx, itemIdx>>
              ELSE IF Len(batchIn.promptVariants) = 0
              THEN /\ batchPc' = "completed"
                   /\ batchOut' = Completed(<<>>)
                   /\ UNCHANGED <<variantIdx, itemIdx>>
              ELSE /\ batchPc' = "item"
                   /\ variantIdx' = 1
                   /\ itemIdx' = 1
                   /\ UNCHANGED batchOut
    /\ UNCHANGED <<batchIn, evaluations, variantResults, inFlight, generationLog,
                   notBatchVars>>

\* mutant: the calls for all the items of the variant are issued together
\* (Promise.all over the items) instead of one after the other
IssueGenerationFanOut ==
    /\ batchPc = "item"
    /\ batchPc' = "awaiting"
    /\ inFlight' = inFlight + (Len(datasetItems) - itemIdx + 1)
    /\ UNCHANGED <<batchIn, datasetItems, variantIdx, itemIdx, evaluations,
                   variantResults, generationLog, batchOut, notBatchVars>>

\* lines 46, 123-129: the generation call for the current pair is issued
IssueGeneration ==
    /\ batchPc = "item"
    /\ batchPc' = "awaiting"
    /\ inFlight' = inFlight + 1
    /\ UNCHANGED <<batchIn, datasetItems, variantIdx, itemIdx, evaluations,
                   variantResults, generationLog, batchOut, notBatchVars>>

\* mutant: the evaluations array is declared outside the variant loop and
\* so carries over from one variant to the next
AdvanceCarryingEvaluations(evals) ==
    IF itemIdx < Len(datasetItems)
    THEN /\ evaluations' = evals
         /\ itemIdx' = itemIdx + 1
         /\ batchPc' = "item"
         /\ UNCHANGED <<variantIdx, variantResults, batchOut>>
    ELSE LET variant == batchIn.promptVariants[variantIdx]
             results == Append(variantResults,
                            [variantId |-> variant.id,
                             variantName |-> variant.name,
                             evaluations |-> evals,
                             summary |-> calculateSummary(evals)])
         IN  /\ variantResults' = results
             /\ evaluations' = evals
             /\ itemIdx' = 1
             /\ IF variantIdx < Len(batchIn.promptVariants)
                THEN /\ variantIdx' = variantIdx + 1
                     /\ batchPc' = "item"
                     /\ UNCHANGED batchOut
                ELSE /\ batchPc' = "completed"
                     /\ batchOut' = Completed(results)
                     /\ UNCHANGED variantIdx

\* lines 44-88 after the current pair's evaluation was pushed: next item,
\* or summary and next variant, or the completed result
Advance(evals) ==
    IF itemIdx < Len(datasetItems)
    THEN /\ evaluations' = evals
         /\ itemIdx' = itemIdx + 1
         /\ batchPc' = "item"
         /\ UNCHANGED <<variantIdx, variantResults, batchOut>>
    ELSE LET variant == batchIn.promptVariants[variantIdx]
             results == Append(variantResults,
                            [variantId |-> variant.id,
                             variantName |-> variant.name,
                             evaluations |-> evals,
                             summary |-> calculateSummary(evals)])
         IN  /\ variantResults' = results
             /\ evaluations' = <<>>
             /\ itemIdx' = 1
             /\ IF variantIdx < Len(batchIn.promptVariants)
                THEN /\ variantIdx' = variantIdx + 1
                     /\ batchPc' = "item"
                     /\ UNCHANGED batchOut
                ELSE /\ batchPc' = "completed"
                     /\ batchOut' = Completed(results)
                     /\ UNCHANGED variantIdx

LogEntry(threw, text, latencyMs) ==
    [variantIdx |-> variantIdx, itemIdx |-> itemIdx,
     prompt |-> substituteVariables(batchIn.promptVariants[variantIdx].content,
                                    datasetItems[itemIdx].input),
     threw |-> threw, text |-> text, latencyMs |-> latencyMs]

\* lines 129-157, 52: the call returned a completion
GenerationReturns ==
    /\ batchPc = "awaiting"
    /\ \E outcome \in GenerationOutcomes :
          /\ generationLog' =
                Append(generationLog, LogEntry(FALSE, outcome.text, outcome.latencyMs))
          /\ Advance(Append(evaluations,
                evaluatePromptVariantOnItem(datasetItems[itemIdx], batchIn.criteria,
                                            outcome.text, outcome.latencyMs)))
    /\ inFlight' = inFlight - 1
    /\ UNCHANGED <<batchIn, datasetItems, notBatchVars>>

\* lines 53-66: the call threw
GenerationThrows ==
    /\ batchPc = "awaiting"
    /\ generationLog' = Append(generationLog, LogEntry(TRUE, <<>>, 0))
    /\ Advance(OnGenerationError(evaluations, datasetItems[itemIdx]))
    /\ inFlight' = inFlight - 1
    /\ UNCHANGED <<batchIn, datasetItems, notBatchVars>>

\* a batch whose request is drawn from PromptInputs
InitPrompt ==
    /\ batchIn \in PromptInputs
    /\ batchPc = "start"
    /\ datasetItems = <<>>
    /\ variantIdx = 0
    /\ itemIdx = 0
    /\ evaluations = <<>>
    /\ variantResults = <<>>
    /\ inFlight = 0
    /\ generationLog = <<>>
    /\ batchOut = [status |-> "running"]
    /\ IdleEval
    /\ IdleScoring
    /\ IdleStore

NextBatch ==
    \/ BeginBatch
    \/ IssueGeneration
    \/ GenerationReturns
    \/ GenerationThrows

\* promptScoringRouter.scoreAndRank called with the variantResults of the
\* completed batch; the input schema keeps latencyMs, overallScore, passed
\* and the summary of each variant
ScoreAndRank ==
    /\ batchPc = "completed"
    /\ scorePc = "idle"
    /\ scoreIn' = [op |-> "rankPrompts",
                   request |-> [evaluationResults |-> batchOut.variantResults,
                                modelConfigs |-> JSUndefined,
                                weights |-> JSUndefined]]
    /\ scoreOut' = rankPrompts(scoreIn'.request)
    /\ scorePc' = "done"
    /\ UNCHANGED <<evalVars, batchVars, storeVars>>

NextPipeline ==
    \/ BeginBatch
    \/ IssueGeneration
    \/ GenerationReturns
    \/ GenerationThrows
    \/ ScoreAndRank

-----------------------------------------------------------------------------
(* Specification of one evaluateOutput call                                *)

InitEval ==
    /\ evalIn \in EvalInputs
    /\ evalOut = <<>>
    /\ evalPc = "ready"
    /\ IdleBatch
    /\ IdleScoring
    /\ IdleStore

EvaluateOutput ==
    /\ evalPc = "ready"
    /\ evalOut' = evaluateOutput(evalIn.actualOutput, evalIn.expectedOutput,
                                 evalIn.criteria)
    /\ evalPc' = "done"
    /\ UNCHANGED <<evalIn, notEvalVars>>

NextEval == EvaluateOutput

-----------------------------------------------------------------------------
(* Specification of one PromptScoringService call                          *)

InitScoring ==
    /\ scoreIn \in ScoringInputs
    /\ scoreOut = <<>>
    /\ scorePc = "ready"
    /\ IdleEval
    /\ IdleBatch
    /\ IdleStore

CalculateCompositeScore ==
    /\ scorePc = "ready"
    /\ scoreIn.op = "calculateCompositeScore"
    /\ scoreOut' = calculateCompositeScore(scoreIn.metrics, scoreIn.weights)
    /\ scorePc' = "done"
    /\ UNCHANGED <<scoreIn, notScoreVars>>

GenerateRecommendation ==
    /\ scorePc = "ready"
    /\ scoreIn.op = "generateRecommendation"
    /\ scoreOut' = generateRecommendation(scoreIn.metrics, scoreIn.score)
    /\ scorePc' = "done"
    /\ UNCHANGED <<scoreIn, notScoreVars>>

RankPrompts ==
    /\ scorePc = "ready"
    /\ scoreIn.op = "rankPrompts"
    /\ scoreOut' = rankPrompts(scoreIn.request)
    /\ scorePc' = "done"
    /\ UNCHANGED <<scoreIn, notScoreVars>>

CompareVariants ==
    /\ scorePc = "ready"
    /\ scoreIn.op = "compareVariants"
    /\ scoreOut' = compareVariants(scoreIn.input)
    /\ scorePc' = "done"
    /\ UNCHANGED <<scoreIn, notScoreVars>>

GenerateTags ==
    /\ scorePc = "ready"
    /\ scoreIn.op = "generateTags"
    /\ scoreOut' = generateTags(scoreIn.metrics)
    /\ scorePc' = "done"
    /\ UNCHANGED <<scoreIn, notScoreVars>>

NextScoring ==
    \/ CalculateCompositeScore
    \/ GenerateRecommendation
    \/ RankPrompts
    \/ CompareVariants
    \/ GenerateTags

-----------------------------------------------------------------------------
(* Calls of publishPrompt and updateLabels, one action per database step   *)

\* a store in which no version is both in production and deprecated and at
\* most one version is in production, and the calls about to run on it
InitStore ==
    LET Call(kind, input) ==
            [kind |-> kind, input |-> input, pc |-> "start",
             sourceLabels |-> {}, promptsToUpdate |-> <<>>]
        Publish(id, targetLabel, remove) ==
            Call("publishPrompt",
                 [sourcePromptId |-> id, targetLabel |-> targetLabel,
                  removeFromPreviousLabels |-> remove])
        Update(id, labels, publishToProduction) ==
            Call("updateLabels",
                 [promptId |-> id, labels |-> labels,
                  publishToProduction |-> publishToProduction])
        calls ==
            {Publish(id, targetLabel, remove) :
                id \in 1..MaxVersions,
                targetLabel \in {"production", "staging", "deprecated"},
                remove \in {{}, {"deprecated"}}}
            \cup {Update(id, labels, publishToProduction) :
                    id \in 1..MaxVersions,
                    labels \in {{}, {"production"}, {"deprecated"},
                                {"production", "deprecated"}},
                    publishToProduction \in BOOLEAN}
            \cup {Publish(MaxVersions + 1, "production", {}),
                  Update(MaxVersions + 1, {"staging"}, FALSE)}
    IN  /\ promptLabels \in
                {labels \in [1..MaxVersions ->
                                {{}, {"production"}, {"deprecated"}}] :
                    Cardinality({v \in 1..MaxVersions :
                                    "production" \in labels[v]}) <= 1}
        /\ protectedLabels \in {{}, {"staging"}}
        /\ storeOps \in [1..MaxStoreOps -> calls]
        /\ IdleEval
        /\ IdleBatch
        /\ IdleScoring

\* publishPrompt lines 373-397: the source prompt is read and the target
\* label validated
PublishRead ==
    \E o \in DOMAIN storeOps :
        /\ storeOps[o].kind = "publishPrompt"
        /\ storeOps[o].pc = "start"
        /\ LET input == storeOps[o].input
               found == input.sourcePromptId \in DOMAIN promptLabels
           IN  storeOps' =
                  [storeOps EXCEPT ![o] =
                      IF found /\ validateLabels({input.targetLabel}, protectedLabels).valid
                      THEN [@ EXCEPT !.pc = "write",
                                     !.sourceLabels = promptLabels[input.sourcePromptId]]
                      ELSE [@ EXCEPT !.pc = "failed"]]
        /\ UNCHANGED <<promptLabels, protectedLabels, evalVars, batchVars, scoreVars>>

\* publishPrompt lines 431-461: the labels read before, less the removed
\* ones, plus the target label are written
PublishWrite ==
    \E o \in DOMAIN storeOps :
        /\ storeOps[o].kind = "publishPrompt"
        /\ storeOps[o].pc = "write"
        /\ LET input == storeOps[o].input
               currentLabels == storeOps[o].sourceLabels \ input.removeFromPreviousLabels
               updatedLabels == currentLabels \cup {input.targetLabel}
           IN  /\ promptLabels' =
                      [promptLabels EXCEPT ![input.sourcePromptId] = updatedLabels]
               /\ storeOps' =
                      [storeOps EXCEPT ![o].pc =
                          IF input.targetLabel = "production" THEN "find" ELSE "done"]
        /\ UNCHANGED <<protectedLabels, evalVars, batchVars, scoreVars>>

\* updateLabels lines 40-66: the labels are validated and the prompt read
UpdateLabelsRead ==
    \E o \in DOMAIN storeOps :
        /\ storeOps[o].kind = "updateLabels"
        /\ storeOps[o].pc = "start"
        /\ LET input == storeOps[o].input
           IN  storeOps' =
                  [storeOps EXCEPT ![o].pc =
                      IF /\ validateLabels(input.labels, protectedLabels).valid
                         /\ input.promptId \in DOMAIN promptLabels
                      THEN "write" ELSE "failed"]
        /\ UNCHANGED <<promptLabels, protectedLabels, evalVars, batchVars, scoreVars>>

\* updateLabels lines 68-91: 'production' is pushed when publishToProduction
\* asks for it, and the labels are written
UpdateLabelsWrite ==
    \E o \in DOMAIN storeOps :
        /\ storeOps[o].kind = "updateLabels"
        /\ storeOps[o].pc = "write"
        /\ LET input == storeOps[o].input
               labels == IF input.publishToProduction
                         THEN input.labels \cup {"production"}
                         ELSE input.labels
           IN  /\ promptLabels' = [promptLabels EXCEPT ![input.promptId] = labels]
               /\ storeOps' =
                      [storeOps EXCEPT ![o].pc =
                          IF "production" \in labels THEN "find" ELSE "done"]
        /\ UNCHANGED <<protectedLabels, evalVars, batchVars, scoreVars>>

\* handleProductionPublishing, findMany: the other versions in production,
\* with the labels they have at this moment
FindProduction ==
    \E o \in DOMAIN storeOps :
        /\ storeOps[o].pc = "find"
        /\ LET newPromptId == IF storeOps[o].kind = "publishPrompt"
                              THEN storeOps[o].input.sourcePromptId
                              ELSE storeOps[o].input.promptId
               ids == {v \in DOMAIN promptLabels :
                          v # newPromptId /\ "production" \in promptLabels[v]}
               promptsToUpdate ==
                   [k \in 1..Cardinality(ids) |->
                       LET id == CHOOSE v \in ids :
                                    Cardinality({w \in ids : w < v}) = k - 1
                       IN  [id |-> id, labels |-> promptLabels[id]]]
           IN  storeOps' =
                  [storeOps EXCEPT ![o].promptsToUpdate = promptsToUpdate,
                                   ![o].pc = IF promptsToUpdate = <<>> THEN "done"
                                             ELSE "remove"]
        /\ UNCHANGED <<promptLabels, protectedLabels, evalVars, batchVars, scoreVars>>

\* handleProductionPublishing, one turn of the loop: the labels found, less
\* 'production', are written to the version
RemoveProduction ==
    \E o \in DOMAIN storeOps :
        /\ storeOps[o].pc = "remove"
        /\ LET prompt == Head(storeOps[o].promptsToUpdate)
               rest == Tail(storeOps[o].promptsToUpdate)
           IN  /\ promptLabels' =
                      [promptLabels EXCEPT ![prompt.id] = prompt.labels \ {"production"}]
               /\ storeOps' =
                      [storeOps EXCEPT ![o].promptsToUpdate = rest,
                                       ![o].pc = IF rest = <<>> THEN "done" ELSE "remove"]
        /\ UNCHANGED <<protectedLabels, evalVars, batchVars, scoreVars>>

NextStore ==
    \/ PublishRead
    \/ PublishWrite
    \/ UpdateLabelsRead
    \/ UpdateLabelsWrite
    \/ FindProduction
    \/ RemoveProduction

vars == <<evalVars, batchVars, scoreVars, storeVars>>

SpecScoring == InitScoring /\ [][NextScoring]_vars

SpecEval == InitEval /\ [][NextEval]_vars

SpecBatch == InitBatch /\ [][NextBatch]_vars

\* the batches that exercise the substitution of prompt variables
SpecPrompt == InitPrompt /\ [][NextBatch]_vars

\* calls of the prompt store, their database steps interleaved
SpecStore == InitStore /\ [][NextStore]_vars

\* a batch evaluation whose result is then scored and ranked
SpecPipeline == InitBatch /\ [][NextPipeline]_vars

-----------------------------------------------------------------------------
(* Claims about evaluateOutput, checked under SpecEval                     *)

RemoveAt(s, i) == SubSeq(s, 1, i - 1) \o SubSeq(s, i + 1, Len(s))

\* a criterion whose configuration is in error: unknown type, a missing
\* (or empty) required field, an invalid regex, a limit that is no number,
\* a threshold that is no number in [0,1]
MalformedCriterion(c, expectedOutput) ==
    LET config == c.config
    IN  CASE c.type \notin CriteriaTypes -> TRUE
          [] c.type \in {"must_contain", "must_not_contain"} ->
                ~Truthy(config.text) /\ ~HasTexts(config)
          [] c.type \in {"regex_match", "regex_not_match"} ->
                \/ ~Truthy(config.pattern)
                \/ \E i \in 1..Len(config.pattern.v) : config.pattern.v[i] = "("
                \/ config.flags = JSStr(<<"z">>)
          [] c.type \in {"token_limit_max", "token_limit_min",
                         "length_max_chars", "length_min_chars"} ->
                config.value.t # "number"
          [] c.type \in {"starts_with", "ends_with"} -> ~Truthy(config.text)
          [] c.type = "exact_match" ->
                ~Truthy(config.text) /\ ~Truthy(expectedOutput)
          [] c.type = "similarity_threshold" ->
                \/ config.threshold.t # "number"
                \/ RLt(config.threshold.v, Zero)
                \/ RGt(config.threshold.v, One)
                \/ ~Truthy(config.referenceText) /\ ~Truthy(expectedOutput)
          [] OTHER -> FALSE

\* C1: evaluateOutput returns exactly one result per input criterion, in
\* the same order: the i-th result carries the i-th criterion's id, also
\* for criteria that are malformed or of unknown type.
C1_OneResultPerCriterion ==
    evalPc = "done" =>
        /\ Len(evalOut) = Len(evalIn.criteria)
        /\ \A i \in 1..Len(evalIn.criteria) :
              evalOut[i].criteriaId = evalIn.criteria[i].id

C1_Witness ==
    /\ evalPc = "done"
    /\ Len(evalIn.criteria) = 2
    /\ evalIn.criteria[1].type = "bogus"
    /\ MalformedCriterion(evalIn.criteria[2], evalIn.expectedOutput)
    /\ evalIn.criteria[1].id # evalIn.criteria[2].id
    /\ Len(evalOut) = 2

\* C2: a configuration error in one criterion is not thrown out of
\* evaluateOutput: that criterion's result is passed = false, score = 0 with
\* a message carrying the error, and the other criteria's results are what
\* the call returns for the list without the bad criterion.
C2_ConfigErrorIsolated ==
    evalPc = "done" =>
        /\ Len(evalOut) = Len(evalIn.criteria)
        /\ \A i \in 1..Len(evalIn.criteria) :
              MalformedCriterion(evalIn.criteria[i], evalIn.expectedOutput) =>
                /\ evalOut[i].passed = FALSE
                /\ evalOut[i].score = Zero
                /\ evalOut[i].message.tpl = "Evaluation error: {message}"
                /\ Len(evalOut[i].message.args) = 1
                /\ RemoveAt(evalOut, i) =
                      evaluateOutput(evalIn.actualOutput, evalIn.expectedOutput,
                                     RemoveAt(evalIn.criteria, i))

C2_Witness ==
    /\ evalPc = "done"
    /\ Len(evalIn.criteria) = 2
    /\ MalformedCriterion(evalIn.criteria[1], evalIn.expectedOutput)
    /\ evalIn.criteria[1].type = "regex_match"
    /\ ~MalformedCriterion(evalIn.criteria[2], evalIn.expectedOutput)
    /\ Len(evalOut) = 2
    /\ evalOut[1].message.tpl = "Evaluation error: {message}"
    /\ evalOut[2].passed

\* C10: every result of evaluateOutput has a score within [0,1], whatever
\* the criterion kind, the output and the accepted numeric configuration.
C10_ScoreWithinUnitInterval ==
    evalPc = "done" =>
        \A i \in 1..Len(evalOut) :
            RLe(Zero, evalOut[i].score) /\ RLe(evalOut[i].score, One)

\* the call evaluates the single criterion c of the given type, configured
\* with text = s only, on an output of the form t \o s
SuffixCase(type) ==
    /\ evalPc = "done"
    /\ Len(evalIn.criteria) = 1
    /\ Len(evalOut) = 1
    /\ evalIn.criteria[1].type = type
    /\ evalIn.criteria[1].config.text.t = "string"
    /\ evalIn.criteria[1].config.texts = JSUndefined
    /\ endsWith(evalIn.actualOutput, evalIn.criteria[1].config.text.v)

\* C11: for all text t and substring s, must_contain with text = s on the
\* output t \o s passes with score 1, and must_not_contain with the same
\* configuration on the same output fails with score 0.
C11_ContainsOwnSuffix ==
    /\ SuffixCase("must_contain") =>
            evalOut[1].passed /\ evalOut[1].score = One
    /\ SuffixCase("must_not_contain") =>
            ~evalOut[1].passed /\ evalOut[1].score = Zero

\* the word set calculateSimilarity builds of a text
WordSet(text) == Range(splitWhitespace(toLowerCase(text)))

\* C12: a similarity_threshold criterion with threshold = 1.0 and
\* referenceText = X passes iff the word set of the output is exactly the
\* word set of X.
C12_FullSimilarityIffSameWordSet ==
    (/\ evalPc = "done"
     /\ Len(evalIn.criteria) = 1
     /\ Len(evalOut) = 1
     /\ evalIn.criteria[1].type = "similarity_threshold"
     /\ evalIn.criteria[1].config.threshold = JSNum(One)
     /\ evalIn.criteria[1].config.referenceText.t = "string") =>
        (evalOut[1].passed <=>
            WordSet(evalIn.actualOutput) =
                WordSet(evalIn.criteria[1].config.referenceText.v))

\* |W1 \cap W2| / |W1 \cup W2|
Jaccard(W1, W2) ==
    IF W1 \cup W2 = {} THEN Zero
    ELSE Rat(Cardinality(W1 \cap W2), Cardinality(W1 \cup W2))

\* C22: the score of a similarity_threshold criterion is the Jaccard index
\* of the word sets of the output and of the reference text, whatever the
\* number of times a word is repeated, and the criterion passes iff that
\* index is at least the threshold.
C22_SimilarityIsJaccardOfWordSets ==
    (/\ evalPc = "done"
     /\ Len(evalIn.criteria) = 1
     /\ Len(evalOut) = 1
     /\ evalIn.criteria[1].type = "similarity_threshold"
     /\ evalIn.criteria[1].config.threshold.t = "number"
     /\ RLe(Zero, evalIn.criteria[1].config.threshold.v)
     /\ RLe(evalIn.criteria[1].config.threshold.v, One)
     /\ Truthy(evalIn.criteria[1].config.referenceText)) =>
        LET index == Jaccard(WordSet(evalIn.actualOutput),
                             WordSet(evalIn.criteria[1].config.referenceText.v))
        IN  /\ evalOut[1].score = index
            /\ evalOut[1].passed <=>
                    RGe(index, evalIn.criteria[1].config.threshold.v)

\* the least number of groups of four characters that cover the text
TokensOf(text) ==
    CHOOSE n \in 0..Len(text) : 4 * n >= Len(text) /\ 4 * n < Len(text) + 4

\* C24: a token_limit_max criterion with limit L > 0 counts
\* ceil(length / 4) tokens, passes with score 1 iff the count is at most L
\* and otherwise fails with score max(0, 1 - (count - L)/L), that is
\* (2L - count)/L below 2L tokens and 0 from there on; with L = 10, 10 tokens
\* pass with score 1 and 20 or more tokens score 0.
C24_TokenLimitMaxScore ==
    (/\ evalPc = "done"
     /\ Len(evalIn.criteria) = 1
     /\ Len(evalOut) = 1
     /\ evalIn.criteria[1].type = "token_limit_max"
     /\ evalIn.criteria[1].config.value.t = "number"
     /\ RGt(evalIn.criteria[1].config.value.v, Zero)) =>
        LET limit == evalIn.criteria[1].config.value.v
            count == RInt(TokensOf(evalIn.actualOutput))
            twice == RAdd(limit, limit)
        IN  /\ evalOut[1].passed <=> RLe(count, limit)
            /\ evalOut[1].passed => evalOut[1].score = One
            /\ ~evalOut[1].passed =>
                    evalOut[1].score =
                        IF RGe(count, twice) THEN Zero
                        ELSE RDiv(RSub(twice, count), limit)
            /\ (limit = RInt(10) /\ count = RInt(10)) =>
                    evalOut[1].passed /\ evalOut[1].score = One
            /\ (limit = RInt(10) /\ RGe(count, RInt(20))) =>
                    ~evalOut[1].passed /\ evalOut[1].score = Zero

\* an output of 20 tokens against the limit 10 has failed with score 0
C24_Witness ==
    /\ evalPc = "done"
    /\ Len(evalIn.criteria) = 1
    /\ evalIn.criteria[1].type = "token_limit_max"
    /\ evalIn.criteria[1].config.value = JSNum(RInt(10))
    /\ Len(evalIn.actualOutput) = 80
    /\ Len(evalOut) = 1
    /\ ~evalOut[1].passed
    /\ evalOut[1].score = Zero

-----------------------------------------------------------------------------
(* Claims about runBatchEvaluation, checked under SpecBatch                *)

\* every evaluation recorded so far, finished variants and the current one
RecordedEvaluations ==
    UNION {Range(variantResults[v].evaluations) : v \in 1..Len(variantResults)}
        \cup Range(evaluations)

LogEntriesOf(v, i) ==
    {k \in 1..Len(generationLog) :
        generationLog[k].variantIdx = v /\ generationLog[k].itemIdx = i}

\* C3: a generation call that throws gives a failed evaluation for that
\* pair only (no output, score 0, not passed); the batch completes with a
\* full summary per variant, failedItems >= 1 where a call threw, and every
\* other pair's evaluation is what its own completion alone determines.
C3_FailureIsolated ==
    batchPc = "completed" =>
        /\ batchOut.status = "completed"
        /\ Len(batchOut.variantResults) = Len(batchIn.promptVariants)
        /\ \A v \in 1..Len(batchIn.promptVariants) :
              LET vr == batchOut.variantResults[v]
              IN  /\ vr.variantId = batchIn.promptVariants[v].id
                  /\ Len(vr.evaluations) = Len(datasetItems)
                  /\ vr.summary.totalItems = Len(datasetItems)
                  /\ \A i \in 1..Len(datasetItems) :
                        /\ Cardinality(LogEntriesOf(v, i)) = 1
                        /\ LET call == generationLog[CHOOSE k \in LogEntriesOf(v, i) : TRUE]
                               e == vr.evaluations[i]
                           IN  IF call.threw
                               THEN /\ e.datasetItemId = datasetItems[i].id
                                    /\ e.actualOutput = JSNull
                                    /\ e.results = <<>>
                                    /\ e.overallScore = Zero
                                    /\ e.passed = FALSE
                                    /\ vr.summary.failedItems >= 1
                               ELSE e = evaluatePromptVariantOnItem(datasetItems[i],
                                            batchIn.criteria, call.text, call.latencyMs)

C3_Witness ==
    /\ batchPc = "completed"
    /\ Len(batchOut.variantResults) = 2
    /\ Len(datasetItems) = 2
    /\ generationLog[1].threw
    /\ ~generationLog[2].threw
    /\ ~generationLog[3].threw
    /\ batchOut.variantResults[1].evaluations[2].passed
    /\ batchOut.variantResults[1].summary.failedItems = 1
    /\ batchOut.variantResults[2].evaluations[1].passed

RECURSIVE WeightedSum(_, _)
WeightedSum(results, criteria) ==
    IF results = <<>> THEN Zero
    ELSE RAdd(RMul(Head(results).score, Head(criteria).weight),
              WeightedSum(Tail(results), Tail(criteria)))

WeightSum(criteria, n) == SumSeq([i \in 1..n |-> criteria[i].weight])

\* C4: for a non-empty result list and weights in [0,1] that are not all 0
\* (weights equal to 0 included), overallScore is the sum of score * weight
\* divided by the sum of the weights.
C4_WeightedAverage ==
    \A e \in RecordedEvaluations :
        (Len(e.results) > 0
            /\ RGt(WeightSum(batchIn.criteria, Len(e.results)), Zero)) =>
        e.overallScore =
            RDiv(WeightedSum(e.results, SubSeq(batchIn.criteria, 1, Len(e.results))),
                 WeightSum(batchIn.criteria, Len(e.results)))

AllRequiredPassed(e) ==
    \A i \in 1..Len(batchIn.criteria) :
        batchIn.criteria[i].required =>
            i <= Len(e.results) /\ e.results[i].passed

\* C5: an item evaluation passed iff its overallScore is strictly above 0.5
\* and every required criterion has a passing result.
C5_PassedIffAboveHalfAndRequired ==
    \A e \in RecordedEvaluations :
        e.passed <=> (RGt(e.overallScore, Half) /\ AllRequiredPassed(e))

\* an item at exactly 0.5 whose required criteria all passed, and that fails
C5_Witness ==
    \E e \in RecordedEvaluations :
        /\ e.overallScore = Half
        /\ AllRequiredPassed(e)
        /\ \E i \in 1..Len(e.results) : ~e.results[i].passed
        /\ ~e.passed

\* the sum of the overallScore of the first n evaluations
RECURSIVE ScoreTotal(_, _)
ScoreTotal(evals, n) ==
    IF n = 0 THEN Zero ELSE RAdd(ScoreTotal(evals, n - 1), evals[n].overallScore)

\* C14: in every variant summary, whether or not items failed: totalItems
\* is the number of dataset items, passedItems the number of evaluations
\* with passed = true, failedItems = totalItems - passedItems, passRate =
\* passedItems / totalItems within [0,1], averageScore the mean overallScore.
C14_SummaryRollup ==
    \A v \in 1..Len(variantResults) :
        LET evals == variantResults[v].evaluations
            summary == variantResults[v].summary
            passedCount ==
                Cardinality({e \in {<<i, evals[i]>> : i \in 1..Len(evals)} : e[2].passed})
        IN  /\ summary.totalItems = Len(datasetItems)
            /\ summary.totalItems > 0
            /\ summary.passedItems = passedCount
            /\ summary.failedItems = summary.totalItems - summary.passedItems
            /\ RMul(summary.passRate, RInt(summary.totalItems)) = RInt(summary.passedItems)
            /\ RLe(Zero, summary.passRate) /\ RLe(summary.passRate, One)
            /\ RMul(summary.averageScore, RInt(summary.totalItems)) =
                    ScoreTotal(evals, Len(evals))

\* a finished variant with one failed item and one item that passed
C14_Witness ==
    /\ batchPc = "completed"
    /\ \E v \in 1..Len(variantResults) :
          LET evals == variantResults[v].evaluations
          IN  /\ Len(evals) = 2
              /\ evals[1].actualOutput = JSNull
              /\ evals[2].passed
              /\ variantResults[v].summary.passRate = Half
              /\ variantResults[v].summary.failedItems = 1

C16_EmptyDatasetFailsAtOnce ==
    (batchPc # "start" /\ datasetItems = <<>>) =>
        /\ batchPc = "failed"
        /\ IsThrow(batchOut)
        /\ batchOut.message = Msg("No dataset items found", <<>>)
        /\ inFlight = 0
        /\ generationLog = <<>>
        /\ variantResults = <<>>

\* two variants requested of a dataset without items
C16_Witness ==
    /\ batchPc = "failed"
    /\ batchIn.stored = <<>>
    /\ Len(batchIn.promptVariants) = 2
    /\ IsThrow(batchOut)

\* the evaluations recorded so far, finished variants and the current one
RecordedCount ==
    Len(evaluations) +
    SumSeq([v \in 1..Len(variantResults) |->
                RInt(Len(variantResults[v].evaluations))]).n

\* C17: once a generation call has failed, no further item is scheduled
\* (the failed call is the last one issued), and the results collected
\* before that point are retained in the returned output.
C17_FailureStopsScheduling ==
    /\ \A k \in 1..Len(generationLog) :
          generationLog[k].threw => (k = Len(generationLog) /\ inFlight = 0)
    /\ batchPc = "completed" =>
          \A k \in 1..Len(generationLog) :
              ~generationLog[k].threw =>
                  batchOut.variantResults[generationLog[k].variantIdx]
                          .evaluations[generationLog[k].itemIdx] =
                      evaluatePromptVariantOnItem(
                          datasetItems[generationLog[k].itemIdx], batchIn.criteria,
                          generationLog[k].text, generationLog[k].latencyMs)

\* C18: the generation calls in flight never exceed the pool size 1: the
\* call for the next (variant, item) pair is issued only when no call is in
\* flight and every pair issued before has its evaluation recorded.
C18_OneGenerationInFlight ==
    /\ inFlight \in {0, 1}
    /\ inFlight = 1 <=> batchPc = "awaiting"
    /\ RecordedCount = Len(generationLog)
    /\ batchPc \in {"item", "awaiting"} =>
            RecordedCount = (variantIdx - 1) * Len(datasetItems) + (itemIdx - 1)

\* the fourth call of a batch of two variants over two items is in flight
C18_Witness ==
    /\ batchPc = "awaiting"
    /\ inFlight = 1
    /\ variantIdx = 2
    /\ itemIdx = 2
    /\ Len(generationLog) = 3
    /\ generationLog[2].threw

\* the sum of latencyMs over those of the first n evaluations whose
\* generation call succeeded
RECURSIVE SucceededLatencyTotal(_, _)
SucceededLatencyTotal(evals, n) ==
    IF n = 0 THEN Zero
    ELSE RAdd(SucceededLatencyTotal(evals, n - 1),
              IF evals[n].actualOutput # JSNull THEN evals[n].latencyMs.v ELSE Zero)

\* C20: the averageLatency of a variant summary is the mean of latencyMs
\* over only the items whose generation call succeeded; an item recorded as
\* failed adds nothing to the sum and nothing to the count.
C20_AverageLatencyOverSucceeded ==
    \A v \in 1..Len(variantResults) :
        LET evals == variantResults[v].evaluations
            succeeded == {i \in 1..Len(evals) : evals[i].actualOutput # JSNull}
        IN  succeeded # {} =>
                /\ variantResults[v].summary.averageLatency.t = "number"
                /\ RMul(variantResults[v].summary.averageLatency.v,
                        RInt(Cardinality(succeeded))) =
                        SucceededLatencyTotal(evals, Len(evals))

-----------------------------------------------------------------------------
(* Claims about substituteVariables, checked under SpecPrompt              *)

\* the string form of an input value
StringForm(value) ==
    IF value.t = "string" THEN value.v ELSE <<"n", "u", "l", "l">>

\* the entries of `input` whose placeholder, wrapped in `depth` braces,
\* stands at position i of the template
PlaceholdersAt(template, input, i, depth) ==
    {k \in 1..Len(input.v) :
        LET open == [j \in 1..depth |-> "{"]
            close == [j \in 1..depth |-> "}"]
            placeholder == open \o input.v[k].key \o close
        IN  /\ i + Len(placeholder) - 1 <= Len(template)
            /\ SubSeq(template, i, i + Len(placeholder) - 1) = placeholder}

\* the template with every {{k}} and {k} of a key k replaced by the string
\* form of input[k], in one pass from position i on: what was inserted is
\* not looked at again
RECURSIVE Substituted(_, _, _)
Substituted(template, input, i) ==
    IF i > Len(template) THEN <<>>
    ELSE LET double == PlaceholdersAt(template, input, i, 2)
             single == PlaceholdersAt(template, input, i, 1)
             hits == IF double # {} THEN double ELSE single
             k == CHOOSE k \in hits : TRUE
             width == Len(input.v[k].key) + (IF double # {} THEN 4 ELSE 2)
         IN  IF hits = {} THEN <<template[i]>> \o Substituted(template, input, i + 1)
             ELSE StringForm(input.v[k].value)
                    \o Substituted(template, input, i + width)

\* C25: the prompt handed to the generation call is the variant template
\* with every occurrence of {{k}} and of {k} replaced by the string form of
\* input[k], for every key k of the item's input object; other placeholders
\* are left as they are, and an input that is not an object leaves the
\* template unchanged.
C25_PlaceholdersReplaced ==
    \A n \in 1..Len(generationLog) :
        LET template == batchIn.promptVariants[generationLog[n].variantIdx].content
            input == datasetItems[generationLog[n].itemIdx].input
        IN  generationLog[n].prompt =
                IF input.t = "object" THEN Substituted(template, input, 1)
                ELSE template

\* the input object with its entries in the order `order` gives them
Reordered(input, order) == JSObj([k \in 1..Len(input.v) |-> input.v[order[k]]])

\* C29: for an input object whose keys are plain names and whose values
\* hold no $ pattern, the prompt does not depend on the order in which the
\* keys are iterated, and a value that was inserted is not substituted
\* again, even when it holds the placeholder of another key.
C29_OrderIndependentSinglePass ==
    \A n \in 1..Len(generationLog) :
        LET template == batchIn.promptVariants[generationLog[n].variantIdx].content
            input == datasetItems[generationLog[n].itemIdx].input
            entries == 1..Len(input.v)
        IN  (/\ input.t = "object"
             /\ \A k \in entries :
                    /\ input.v[k].key # <<".">>
                    /\ input.v[k].value # JSStr(<<"$", "&">>)) =>
                /\ \A order \in {f \in [entries -> entries] :
                                    \A j, k \in entries : f[j] = f[k] => j = k} :
                        generationLog[n].prompt =
                            substituteVariables(template, Reordered(input, order))
                /\ generationLog[n].prompt = Substituted(template, input, 1)

-----------------------------------------------------------------------------
(* Claims about a ranked batch result, checked under SpecPipeline          *)

\* the number of evaluations of a variant whose generation call threw
HardFailed(evals) ==
    Cardinality({i \in 1..Len(evals) : evals[i].actualOutput = JSNull})

\* C21: when the result of runBatchEvaluation is ranked, a variant with k
\* hard-failed items out of n has successRate (n-k)/n and errorRate k/n.
C21_SuccessRateCountsHardFailures ==
    scorePc = "done" =>
        \A r \in 1..Len(scoreOut) : \A v \in 1..Len(variantResults) :
            LET evals == variantResults[v].evaluations
                n == Len(evals)
                k == HardFailed(evals)
            IN  (scoreOut[r].variantId = variantResults[v].variantId /\ n > 0) =>
                    /\ scoreOut[r].metrics.successRate = Rat(n - k, n)
                    /\ scoreOut[r].metrics.errorRate = Rat(k, n)

-----------------------------------------------------------------------------
(* Claims about PromptScoringService, checked under SpecScoring            *)

InUnitInterval(x) == RLe(Zero, x) /\ RLe(x, One)

\* C6: with passRate, averageScore and successRate in [0,1], averageLatency
\* >= 0 and each of the four weights in [0,1] (their sum is free), the
\* composite score lies within [0,100].
C6_CompositeScoreWithinRange ==
    (/\ scorePc = "done"
     /\ scoreIn.op = "calculateCompositeScore"
     /\ InUnitInterval(scoreIn.metrics.passRate)
     /\ InUnitInterval(scoreIn.metrics.averageScore)
     /\ InUnitInterval(scoreIn.metrics.successRate)
     /\ RGe(scoreIn.metrics.averageLatency, Zero)
     /\ InUnitInterval(scoreIn.weights.passRate)
     /\ InUnitInterval(scoreIn.weights.averageScore)
     /\ InUnitInterval(scoreIn.weights.latency)
     /\ InUnitInterval(scoreIn.weights.cost)) =>
        scoreOut >= 0 /\ scoreOut <= ScoreMax

\* position of a variant in the request
InputIndex(variantId) ==
    CHOOSE k \in 1..Len(scoreIn.request.evaluationResults) :
        scoreIn.request.evaluationResults[k].variantId = variantId

\* C7: rankPrompts returns a permutation of the N variants, ordered by
\* non-increasing composite score, the element at position i having rank i.
C7_RankingIsSortedPermutation ==
    (scorePc = "done" /\ scoreIn.op = "rankPrompts") =>
        LET results == scoreIn.request.evaluationResults
        IN  /\ Len(scoreOut) = Len(results)
            /\ {scoreOut[i].variantId : i \in 1..Len(scoreOut)} =
                    {results[k].variantId : k \in 1..Len(results)}
            /\ \A i \in 1..Len(scoreOut) : scoreOut[i].rank = i
            /\ \A i \in 1..(Len(scoreOut) - 1) :
                    scoreOut[i].score >= scoreOut[i + 1].score

C7_Witness ==
    /\ scorePc = "done"
    /\ scoreIn.op = "rankPrompts"
    /\ Len(scoreOut) = 3
    /\ scoreOut[1].variantId = "v3"
    /\ scoreOut[2].variantId = "v1"
    /\ scoreOut[3].variantId = "v2"
    /\ scoreOut[1].score > scoreOut[2].score
    /\ scoreOut[2].score > scoreOut[3].score
    /\ scoreOut[3].rank = 3

\* C8: variants of equal composite score keep their relative input order.
C8_TiesKeepInputOrder ==
    (scorePc = "done" /\ scoreIn.op = "rankPrompts") =>
        \A i \in 1..Len(scoreOut) : \A j \in 1..Len(scoreOut) :
            (i < j /\ scoreOut[i].score = scoreOut[j].score) =>
                InputIndex(scoreOut[i].variantId) < InputIndex(scoreOut[j].variantId)

C8_Witness ==
    /\ scorePc = "done"
    /\ scoreIn.op = "rankPrompts"
    /\ Len(scoreOut) = 3
    /\ scoreOut[1].variantId = "v2"
    /\ scoreOut[2].variantId = "v1"
    /\ scoreOut[3].variantId = "v3"
    /\ scoreOut[2].score = scoreOut[3].score
    /\ scoreOut[1].score > scoreOut[2].score

ProductionCondition(metrics, score) ==
    /\ RGe(metrics.passRate, Rat(85, 100))
    /\ RGe(metrics.successRate, Rat(95, 100))
    /\ score >= 75

DiscardCondition(metrics, score) ==
    \/ RLt(metrics.passRate, Rat(60, 100))
    \/ RLt(metrics.successRate, Rat(80, 100))
    \/ score < 40

\* C9: generateRecommendation returns exactly one tier: production iff
\* passRate >= 0.85, successRate >= 0.95 and score >= 75; discard iff
\* passRate < 0.6 or successRate < 0.8 or score < 40; candidate otherwise;
\* the production and discard conditions never both hold.
C9_RecommendationTiers ==
    (scorePc = "done" /\ scoreIn.op = "generateRecommendation") =>
        LET production == ProductionCondition(scoreIn.metrics, scoreIn.score)
            discard == DiscardCondition(scoreIn.metrics, scoreIn.score)
        IN  /\ scoreOut \in {"production", "candidate", "discard"}
            /\ (scoreOut = "production") <=> production
            /\ (scoreOut = "discard") <=> discard
            /\ (scoreOut = "candidate") <=> (~production /\ ~discard)
            /\ ~(production /\ discard)

\* the three production thresholds met exactly
C9_Witness ==
    /\ scorePc = "done"
    /\ scoreIn.op = "generateRecommendation"
    /\ scoreIn.metrics.passRate = Rat(85, 100)
    /\ scoreIn.metrics.successRate = Rat(95, 100)
    /\ scoreIn.score = 75
    /\ scoreOut = "production"

\* positions i, j of the ranking that hold the scenario's two variants:
\* passRate 1.0 at 200 ms against passRate 0.6 at 50 ms, with the same
\* averageScore and successRate and no known cost
ScenarioPair(i, j) ==
    LET accurate == scoreOut[i].metrics
        quick == scoreOut[j].metrics
    IN  /\ accurate.passRate = One
        /\ accurate.averageLatency = RInt(200)
        /\ quick.passRate = Rat(6, 10)
        /\ quick.averageLatency = RInt(50)
        /\ accurate.averageScore = quick.averageScore
        /\ accurate.successRate = quick.successRate
        /\ accurate.estimatedCostPerRun = JSUndefined
        /\ quick.estimatedCostPerRun = JSUndefined

\* with the other metrics and the weights of the call fixed, the composite
\* score does not decrease with passRate and does not increase with
\* averageLatency
CompositeScoreMonotone ==
    (scorePc = "done" /\ scoreIn.op = "calculateCompositeScore") =>
        /\ \A passRate \in RateGrid(ScoreRateSteps) :
                RGe(passRate, scoreIn.metrics.passRate) =>
                    calculateCompositeScore(
                        [scoreIn.metrics EXCEPT !.passRate = passRate],
                        scoreIn.weights) >= scoreOut
        /\ \A latency \in {Zero, RInt(5000), RInt(10000), RInt(20000)} :
                RGe(latency, scoreIn.metrics.averageLatency) =>
                    calculateCompositeScore(
                        [scoreIn.metrics EXCEPT !.averageLatency = latency],
                        scoreIn.weights) <= scoreOut

\* C26 as stated: with default weights, no cost model and equal
\* averageScore and successRate, the variant with passRate 1.0 and 200 ms
\* gets rank 1 over the variant with passRate 0.6 and 50 ms; and the
\* composite score is monotone in passRate and in averageLatency.
C26_AccurateVariantRanksFirst ==
    /\ (scorePc = "done" /\ scoreIn.op = "rankPrompts"
            /\ scoreIn.request.weights = JSUndefined /\ Len(scoreOut) = 2) =>
            \A i, j \in 1..2 : ScenarioPair(i, j) => scoreOut[i].rank = 1
    /\ CompositeScoreMonotone

\* C26 amended: the same, for an equal successRate of at least 0.1.
C26_AccurateVariantRanksFirstWhenReliable ==
    /\ (scorePc = "done" /\ scoreIn.op = "rankPrompts"
            /\ scoreIn.request.weights = JSUndefined /\ Len(scoreOut) = 2) =>
            \A i, j \in 1..2 :
                (ScenarioPair(i, j)
                    /\ RGe(scoreOut[i].metrics.successRate, Rat(1, 10))) =>
                        scoreOut[i].rank = 1
    /\ CompositeScoreMonotone

\* the scenario, with the quick variant listed first and every item timed
C26_Witness ==
    /\ scorePc = "done"
    /\ scoreIn.op = "rankPrompts"
    /\ Len(scoreOut) = 2
    /\ scoreIn.request.evaluationResults[1].variantId = "quick"
    /\ ScenarioPair(1, 2)
    /\ scoreOut[1].metrics.successRate = One
    /\ scoreOut[1].variantId = "accurate"
    /\ scoreOut[1].score > scoreOut[2].score

\* the tags of `names` that generateTags returned
TagsAmong(names) == Range(scoreOut) \cap names

\* C23: generateTags returns exactly the tags its thresholds define: at most
\* one accuracy tag (passRate >= 0.9, >= 0.8, < 0.6), exactly one speed tag
\* (averageLatency < 1000, < 3000, else), a cost tag only when the cost is
\* known, a reliability tag (successRate >= 0.99, < 0.9), 'consistent' when
\* consistencyScore >= 0.9 and 'inconsistent' when it is < 0.7, 0 included.
C23_TagsFollowThresholds ==
    (scorePc = "done" /\ scoreIn.op = "generateTags") =>
        LET metrics == scoreIn.metrics
        IN  /\ Range(scoreOut) \subseteq
                    {"highly-accurate", "accurate", "needs-improvement", "fast",
                     "moderate-speed", "slow", "cost-effective", "expensive",
                     "reliable", "unreliable", "consistent", "inconsistent"}
            /\ TagsAmong({"highly-accurate", "accurate", "needs-improvement"}) =
                    IF RGe(metrics.passRate, Rat(9, 10)) THEN {"highly-accurate"}
                    ELSE IF RGe(metrics.passRate, Rat(8, 10)) THEN {"accurate"}
                    ELSE IF RLt(metrics.passRate, Rat(6, 10))
                    THEN {"needs-improvement"}
                    ELSE {}
            /\ TagsAmong({"fast", "moderate-speed", "slow"}) =
                    IF RLt(metrics.averageLatency, RInt(1000)) THEN {"fast"}
                    ELSE IF RLt(metrics.averageLatency, RInt(3000))
                    THEN {"moderate-speed"}
                    ELSE {"slow"}
            /\ TagsAmong({"cost-effective", "expensive"}) # {} =>
                    metrics.estimatedCostPerRun.t = "number"
            /\ TagsAmong({"reliable", "unreliable"}) =
                    IF RGe(metrics.successRate, Rat(99, 100)) THEN {"reliable"}
                    ELSE IF RLt(metrics.successRate, Rat(9, 10)) THEN {"unreliable"}
                    ELSE {}
            /\ TagsAmong({"consistent", "inconsistent"}) =
                    IF ConsistencyGe(metrics.consistencyScore, Rat(9, 10))
                    THEN {"consistent"}
                    ELSE IF ConsistencyLt(metrics.consistencyScore, Rat(7, 10))
                    THEN {"inconsistent"}
                    ELSE {}

\* the metrics and composite score of a variant of the comparison request
ComparedMetrics(variant) ==
    calculateMetrics(variant,
        FindModelConfig(scoreIn.input.modelConfigs, variant.variantId))

ComparedScore(variant) ==
    calculateCompositeScore(ComparedMetrics(variant),
        IF Truthy(scoreIn.input.weights) THEN scoreIn.input.weights.v
        ELSE DefaultWeights)

\* the variant named as winner satisfies its condition
WinnerHolds(name, variant1Wins, variant2Wins) ==
    /\ name = "variant1" => variant1Wins
    /\ name = "variant2" => variant2Wins

\* C19: the variant compareVariants reports as winner of a metric is never
\* strictly worse than the other on it: passRate >= the other's, latency <=
\* the other's, cost (reported only when both costs are known, otherwise
\* null) <= the other's, composite score >= the other's.
C19_WinnerNeverWorse ==
    (scorePc = "done" /\ scoreIn.op = "compareVariants") =>
        LET m1 == ComparedMetrics(scoreIn.input.variant1)
            m2 == ComparedMetrics(scoreIn.input.variant2)
            s1 == ComparedScore(scoreIn.input.variant1)
            s2 == ComparedScore(scoreIn.input.variant2)
            bothKnown == m1.estimatedCostPerRun.t # "undefined"
                            /\ m2.estimatedCostPerRun.t # "undefined"
        IN  /\ ~IsThrow(scoreOut)
            /\ scoreOut.winner.overall \in {"variant1", "variant2"}
            /\ WinnerHolds(scoreOut.winner.overall, s1 >= s2, s2 >= s1)
            /\ scoreOut.winner.passRate \in {"variant1", "variant2"}
            /\ WinnerHolds(scoreOut.winner.passRate,
                           RGe(m1.passRate, m2.passRate), RGe(m2.passRate, m1.passRate))
            /\ scoreOut.winner.latency \in {"variant1", "variant2"}
            /\ WinnerHolds(scoreOut.winner.latency,
                           RLe(m1.averageLatency, m2.averageLatency),
                           RLe(m2.averageLatency, m1.averageLatency))
            /\ IF bothKnown
               THEN /\ scoreOut.winner.cost \in {"variant1", "variant2"}
                    /\ WinnerHolds(scoreOut.winner.cost,
                            RLe(m1.estimatedCostPerRun.v, m2.estimatedCostPerRun.v),
                            RLe(m2.estimatedCostPerRun.v, m1.estimatedCostPerRun.v))
               ELSE scoreOut.winner.cost = "null"

\* C30: the variant compareVariants reports as winner.overall, and as
\* recommendation.preferred, holds rank 1 in the ranking rankPrompts made of
\* the two variants, also when both composite scores are equal.
C30_OverallWinnerHoldsRankOne ==
    (scorePc = "done" /\ scoreIn.op = "compareVariants" /\ ~IsThrow(scoreOut)) =>
        /\ scoreOut.recommendation.preferred = scoreOut.winner.overall
        /\ scoreOut.winner.overall = "variant1" => scoreOut.variant1.rank = 1
        /\ scoreOut.winner.overall = "variant2" => scoreOut.variant2.rank = 1

-----------------------------------------------------------------------------
(* Claims about the prompt store, checked under SpecStore                  *)

\* every call has returned, none with an error
AllSucceeded == \A o \in DOMAIN storeOps : storeOps[o].pc = "done"

\* C27: once every call of a sequence of successful updateLabels and
\* publishPrompt calls has returned, no version carries both the
\* 'production' and the 'deprecated' label.
C27_NeverProductionAndDeprecated ==
    AllSucceeded =>
        \A v \in DOMAIN promptLabels :
            ~({"production", "deprecated"} \subseteq promptLabels[v])

\* C28: once publishPrompt calls that all target 'production', run one
\* after the other or interleaved, have all completed, exactly one version
\* of the prompt name holds the 'production' label.
C28_ExactlyOneProduction ==
    (/\ AllSucceeded
     /\ \A o \in DOMAIN storeOps :
            /\ storeOps[o].kind = "publishPrompt"
            /\ storeOps[o].input.targetLabel = "production") =>
        Cardinality({v \in DOMAIN promptLabels :
                        "production" \in promptLabels[v]}) = 1

=============================================================================
